---- MODULE Spec2Model ----
(***************************************************************************)
(* Model of the metrology-file codecs of prysm/io.py: the Code V grid-sag  *)
(* text codec (write_codev_gridint / read_codev_gridint) and the Zygo      *)
(* binary codec (write_zygo_dat / read_zygo_dat).                          *)
(*                                                                         *)
(* Floating point values are modelled as exact numbers                     *)
(*      n/d * 2^b * 5^f      (n, d coprime, neither divisible by 2 or 5),  *)
(* plus the IEEE specials inf and nan.  The representation is canonical,   *)
(* so = on two numbers is numeric equality.  Rounding of float64           *)
(* arithmetic is not modelled; the narrowing conversions of the code       *)
(* (float -> int16, float -> int32, float64 -> float32) are.               *)
(***************************************************************************)
EXTENDS Integers, Sequences, FiniteSets, TLC

(***************************************************************************)
(* Exact arithmetic                                                        *)
(***************************************************************************)
Abs(x) == IF x < 0 THEN -x ELSE x

Sign(x) == IF x < 0 THEN -1 ELSE IF x > 0 THEN 1 ELSE 0

Min(a, b) == IF a < b THEN a ELSE b

RECURSIVE GCD(_, _)
GCD(a, b) == IF b = 0 THEN a ELSE GCD(b, a % b)

RECURSIVE Pow(_, _)
Pow(base, e) == IF e <= 0 THEN 1 ELSE base * Pow(base, e - 1)

\* how many times p divides x (x > 0)
RECURSIVE Mult(_, _)
Mult(x, p) == IF x % p = 0 THEN 1 + Mult(x \div p, p) ELSE 0

Zero == [k |-> "fin", n |-> 0, d |-> 1, b |-> 0, f |-> 0]

NaN == [k |-> "nan", n |-> 0, d |-> 1, b |-> 0, f |-> 0]

Inf(s) == [k |-> "inf", n |-> s, d |-> 1, b |-> 0, f |-> 0]

\* the canonical form of n/d * 2^b * 5^f (d > 0)
Mk(n, d, b, f) ==
    IF n = 0 THEN Zero
    ELSE LET g  == GCD(Abs(n), d)
             a  == Abs(n) \div g
             c  == d \div g
             a2 == Mult(a, 2)
             a5 == Mult(a, 5)
             c2 == Mult(c, 2)
             c5 == Mult(c, 5)
         IN  [k |-> "fin",
              n |-> Sign(n) * (a \div (Pow(2, a2) * Pow(5, a5))),
              d |-> c \div (Pow(2, c2) * Pow(5, c5)),
              b |-> b + a2 - c2,
              f |-> f + a5 - c5]

Num(i) == Mk(i, 1, 0, 0)

Frac(n, d) == Mk(n, d, 0, 0)

\* the decimal literal m e t, e.g. Dec(1, -3) is 1e-3
Dec(m, t) == Mk(m, 1, t, t)

IsFin(x) == x.k = "fin"

IsNaN(x) == x.k = "nan"

Neg(x) == IF x.k = "nan" THEN x ELSE [x EXCEPT !.n = -x.n]

NumAbs(x) == IF x.k = "nan" THEN x ELSE [x EXCEPT !.n = Abs(x.n)]

\* numerator of x over denominator x.d once 2^b0 * 5^f0 is factored out
Scaled(x, b0, f0) == x.n * Pow(2, x.b - b0) * Pow(5, x.f - f0)

Mul(x, y) ==
    IF x.k = "nan" \/ y.k = "nan" THEN NaN
    ELSE IF x.k = "inf" \/ y.k = "inf"
    THEN IF x.n = 0 \/ y.n = 0 THEN NaN ELSE Inf(Sign(x.n) * Sign(y.n))
    ELSE LET g1 == GCD(Abs(x.n), y.d)
             g2 == GCD(Abs(y.n), x.d)
         IN  Mk((x.n \div g1) * (y.n \div g2), (x.d \div g2) * (y.d \div g1),
                x.b + y.b, x.f + y.f)

\* IEEE division; a zero divisor is +0.0
Div(x, y) ==
    IF x.k = "nan" \/ y.k = "nan" THEN NaN
    ELSE IF y.k = "inf"
    THEN IF x.k = "inf" THEN NaN ELSE Zero
    ELSE IF y.n = 0
    THEN IF x.n = 0 THEN NaN ELSE Inf(Sign(x.n))
    ELSE IF x.k = "inf" THEN Inf(Sign(x.n) * Sign(y.n))
    ELSE Mul(x, Mk(Sign(y.n) * y.d, Abs(y.n), -y.b, -y.f))

Add(x, y) ==
    IF x.k = "nan" \/ y.k = "nan" THEN NaN
    ELSE IF x.k = "inf"
    THEN IF y.k = "inf" /\ y.n # x.n THEN NaN ELSE x
    ELSE IF y.k = "inf" THEN y
    ELSE IF x.n = 0 THEN y
    ELSE IF y.n = 0 THEN x
    ELSE LET b0 == Min(x.b, y.b)
             f0 == Min(x.f, y.f)
             g  == GCD(x.d, y.d)
         IN  Mk(Scaled(x, b0, f0) * (y.d \div g) + Scaled(y, b0, f0) * (x.d \div g),
                (x.d \div g) * y.d, b0, f0)

Sub(x, y) == Add(x, Neg(y))

\* x < y; FALSE when either is nan
Less(x, y) ==
    IF x.k = "nan" \/ y.k = "nan" THEN FALSE
    ELSE IF x.k = "inf" THEN x.n < 0 /\ ~(y.k = "inf" /\ y.n < 0)
    ELSE IF y.k = "inf" THEN y.n > 0
    ELSE IF Sign(x.n) # Sign(y.n) THEN x.n < y.n
    ELSE IF x.n = 0 THEN FALSE
    ELSE LET b0 == Min(x.b, y.b)
             f0 == Min(x.f, y.f)
         IN  Scaled(x, b0, f0) * y.d < Scaled(y, b0, f0) * x.d

LessEq(x, y) == x.k # "nan" /\ y.k # "nan" /\ ~Less(y, x)

\* |x| < 2^k for a finite x, without forming the large products:
\* A * 2^b < B * 2^k with A = |n| * 5^f or B = d * 5^-f
BelowPow2(x, k) ==
    LET A == Abs(x.n) * Pow(5, x.f)
        B == x.d * Pow(5, -x.f)
        s == k - x.b
    IN  IF x.n = 0 THEN TRUE
        ELSE IF s >= 0 THEN (s > 30 \/ A \div Pow(2, s) < B)
        ELSE (-s <= 30 /\ A < ((B - 1) \div Pow(2, -s)) + 1)

\* numerator and denominator of a finite x as plain integers
NumOf(x) == x.n * Pow(2, x.b) * Pow(5, x.f)

DenOf(x) == x.d * Pow(2, -x.b) * Pow(5, -x.f)

\* round toward zero (C cast of an in-range float to an integer type)
Trunc(x) == Sign(x.n) * (Abs(NumOf(x)) \div DenOf(x))

\* round half to even (numpy.around)
RoundHalfEven(x) ==
    LET num == Abs(NumOf(x))
        den == DenOf(x)
        q   == num \div den
        r   == num - q * den
        up  == 2 * r > den \/ (2 * r = den /\ q % 2 = 1)
    IN  Sign(x.n) * (IF up THEN q + 1 ELSE q)

(***************************************************************************)
(* Sequences                                                               *)
(***************************************************************************)
RECURSIVE Flatten(_)
Flatten(lines) ==
    IF lines = << >> THEN << >> ELSE Head(lines) \o Flatten(Tail(lines))

Slice(s, lo, hi) == [j \in 1..(hi - lo + 1) |-> s[lo + j - 1]]

\* the sequences that take their i-th element from sets[i]
RECURSIVE Choices(_)
Choices(sets) ==
    IF sets = << >> THEN { << >> }
    ELSE { << h >> \o t : h \in Head(sets), t \in Choices(Tail(sets)) }

\* the sequences over S of length n
SeqsOf(S, n) == [1..n -> S]

(***************************************************************************)
(* Tokens of a text header line.  A token is a word, an integer literal or *)
(* a float literal; v is the number a literal denotes.                     *)
(***************************************************************************)
Word(w) == [tk |-> "word", w |-> w, v |-> Zero]

IntTok(i) == [tk |-> "int", w |-> "", v |-> Num(i)]

FloatTok(x) == [tk |-> "float", w |-> "", v |-> x]

\* str.upper() on the words the model uses
Upper(w) ==
    CASE w = "grd" -> "GRD"
      [] w = "wvl" -> "WVL"
      [] w = "ssz" -> "SSZ"
      [] w = "nda" -> "NDA"
      [] w = "sur" -> "SUR"
      [] w = "wfr" -> "WFR"
      [] w = "nnb" -> "NNB"
      [] OTHER -> w

\* params[i].upper(): a literal has no letters to change
TokUpper(tok) == IF tok.tk = "word" THEN Upper(tok.w) ELSE ""

(***************************************************************************)
(* write_codev_gridint                                                     *)
(***************************************************************************)
INT16_MIN == -32768

INT16_MAX == 32767

GRID_NDA == -32768

GRID_FULL_SCALE == 32767

GRID_MAX_WIDTH == 585

\* np.nanmin / np.nanmax over the cells; nan when every cell is nan
RECURSIVE NanFold(_, _, _)
NanFold(cells, i, takeMin) ==
    IF i > Len(cells) THEN NaN
    ELSE LET rest == NanFold(cells, i + 1, takeMin)
             x    == cells[i]
         IN  IF IsNaN(x) THEN rest
             ELSE IF IsNaN(rest) THEN x
             ELSE IF takeMin THEN (IF Less(rest, x) THEN rest ELSE x)
             ELSE (IF Less(x, rest) THEN rest ELSE x)

NanMin(cells) == NanFold(cells, 1, TRUE)

NanMax(cells) == NanFold(cells, 1, FALSE)

\* Python's builtin min(a, b): b only when b < a
PyMin(a, b) == IF Less(b, a) THEN b ELSE a

\* scale = min(-32767 / mn_valid, +32767 / mx_valid), cells in um
GridScale(cells) ==
    LET mn_valid   == NanMin(cells)
        mx_valid   == NanMax(cells)
        scale_down == Div(Num(-GRID_FULL_SCALE), mn_valid)
        scale_up   == Div(Num(GRID_FULL_SCALE), mx_valid)
    IN  PyMin(scale_down, scale_up)

\* np.around on one float: specials pass through
Around(x) == IF IsFin(x) THEN Num(RoundHalfEven(x)) ELSE x

Wrap16(v) == ((v + 32768) % 65536) - 32768

\* .astype(np.int16) of an integral float.  In range the cast is exact; out
\* of range (or inf, nan) the C cast is undefined: builds wrap through a
\* 32-bit conversion, saturate, or yield the "integer indefinite" pattern.
CastInt16(x) ==
    IF x.k = "nan" THEN {0, INT16_MIN}
    ELSE IF x.k = "inf" THEN {0, -1, IF x.n < 0 THEN INT16_MIN ELSE INT16_MAX}
    ELSE LET v == NumOf(x)
         IN  IF INT16_MIN <= v /\ v <= INT16_MAX THEN {v}
             ELSE {Wrap16(v), IF v < 0 THEN INT16_MIN ELSE INT16_MAX}

\* The first width, scanning lo..hi downward, with size % width = 0 (0 when
\* there is none).  The scan is split in halves, upper half first, only to
\* keep the depth of the recursion logarithmic.
RECURSIVE ScanDown(_, _, _)
ScanDown(size, lo, hi) ==
    IF lo = hi THEN (IF size % hi # 0 THEN 0 ELSE hi)
    ELSE LET mid   == (lo + hi) \div 2
             upper == ScanDown(size, mid + 1, hi)
         IN  IF upper # 0 THEN upper ELSE ScanDown(size, lo, mid)

\* width = 585; while (array.size % width) != 0: width -= 1
WidthSearch(size, width) == ScanDown(size, 1, width)

\* array.ravel().reshape((width, array.size // width)), one text line per row
Reshape(flat, nrows, ncols) ==
    [r \in 1..nrows |-> Slice(flat, (r - 1) * ncols + 1, r * ncols)]

\* the header line f'GRD {n} {m} {typ} WVL 1.0 SSZ {scale} NDA -32768'
GridHeader(n, m, typ, scale) ==
    << Word("GRD"), IntTok(n), IntTok(m), Word(typ), Word("WVL"), FloatTok(Num(1)),
       Word("SSZ"), FloatTok(scale), Word("NDA"), IntTok(GRID_NDA) >>

\* array = array / 1e3 (nm => um)
GridToMicrons(cells) == [i \in 1..Len(cells) |-> Div(cells[i], Dec(1, 3))]

\* np.around(array * scale), before the cast to int16
GridRounded(cells) ==
    LET um    == GridToMicrons(cells)
        scale == GridScale(um)
    IN  [i \in 1..Len(cells) |-> Around(Mul(um[i], scale))]

\* the int16 arrays the cast and the NDA stamp (array[NDA_PIX] = -32768)
\* can leave
GridCodes(cells) ==
    LET rounded == GridRounded(cells)
    IN  Choices([i \in 1..Len(cells) |->
                    IF IsNaN(cells[i]) THEN {GRID_NDA} ELSE CastInt16(rounded[i])])

\* the file np.savetxt leaves: title, header line, the blank line that ends
\* the header text, and one line per row of the reshaped array
GridFile(array, comment, typ, codes) ==
    LET size  == Len(codes)
        width == WidthSearch(size, GRID_MAX_WIDTH)
    IN  [bang  |-> 0,
         title |-> IF comment = "" THEN "CV Grid Sag generated by prysm" ELSE comment,
         hdr   |-> GridHeader(array.rows, array.cols, typ,
                              GridScale(GridToMicrons(array.cells))),
         body  |-> << << >> >> \o Reshape(codes, width, size \div width)]

(***************************************************************************)
(* read_codev_gridint                                                      *)
(***************************************************************************)
\* a local variable of the reader: unbound, None, or set to v
Unbound == [st |-> "unbound", v |-> Zero, s |-> ""]

None == [st |-> "none", v |-> Zero, s |-> ""]

Val(x) == [st |-> "set", v |-> x, s |-> ""]

Str(x) == [st |-> "set", v |-> Zero, s |-> x]

NoError == [type |-> "", msg |-> "", tok |-> Word("")]

Error(type, msg, tok) == [type |-> type, msg |-> msg, tok |-> tok]

\* float(tok) and int(tok) accept these tokens; int('1.0') is a ValueError
FloatOk(tok) == tok.tk \in {"int", "float"}

IntOk(tok) == tok.tk = "int"

\* the locals before the header loop: wvl, nda = None, None
ParseStart ==
    [i |-> 1, wvl |-> None, nda |-> None, ssz |-> Unbound, m |-> Unbound,
     n |-> Unbound, meaning |-> Unbound, err |-> NoError]

\* a keyword that reads the token after it: IndexError when there is none,
\* ValueError when the conversion rejects it
KeywordValue(params, s, field, conv, what) ==
    IF s.i + 1 > Len(params)
    THEN [s EXCEPT !.err = Error("IndexError", "list index out of range", params[s.i])]
    ELSE IF ~(IF conv = "float" THEN FloatOk(params[s.i + 1]) ELSE IntOk(params[s.i + 1]))
    THEN [s EXCEPT !.err = Error("ValueError", what, params[s.i + 1])]
    ELSE [s EXCEPT ![field] = Val(params[s.i + 1].v), !.i = s.i + 2]

\* GRD reads two integers: m = int(params[i+1]); n = int(params[i+2])
KeywordGRD(params, s) ==
    LET s1 == KeywordValue(params, s, "m", "int", "invalid literal for int()")
    IN  IF s1.err.type # "" THEN s1
        ELSE IF s.i + 2 > Len(params)
        THEN [s1 EXCEPT !.err = Error("IndexError", "list index out of range", params[s.i]),
                        !.i = s.i]
        ELSE IF ~IntOk(params[s.i + 2])
        THEN [s1 EXCEPT !.err = Error("ValueError", "invalid literal for int()",
                                      params[s.i + 2]),
                        !.i = s.i]
        ELSE [s1 EXCEPT !.n = Val(params[s.i + 2].v), !.i = s.i + 3]

\* a header loop that would pass over the words it does not know
ParseStepLenient(params, s) ==
    LET up == TokUpper(params[s.i])
    IN  CASE up = "WVL" ->
               KeywordValue(params, s, "wvl", "float", "could not convert string to float")
          [] up = "SSZ" ->
               KeywordValue(params, s, "ssz", "float", "could not convert string to float")
          [] up = "NDA" ->
               KeywordValue(params, s, "nda", "int", "invalid literal for int()")
          [] up = "GRD" -> KeywordGRD(params, s)
          [] up = "SUR" -> [s EXCEPT !.meaning = Str("surface error"), !.i = s.i + 1]
          [] up = "WFR" -> [s EXCEPT !.meaning = Str("wavefront error"), !.i = s.i + 1]
          [] OTHER -> [s EXCEPT !.i = s.i + 1]

\* one pass of the body of `while i < l`
ParseStep(params, s) ==
    LET up == TokUpper(params[s.i])
    IN  CASE up = "WVL" ->
               KeywordValue(params, s, "wvl", "float", "could not convert string to float")
          [] up = "SSZ" ->
               KeywordValue(params, s, "ssz", "float", "could not convert string to float")
          [] up = "NDA" ->
               KeywordValue(params, s, "nda", "int", "invalid literal for int()")
          [] up = "GRD" -> KeywordGRD(params, s)
          [] up = "SUR" -> [s EXCEPT !.meaning = Str("surface error"), !.i = s.i + 1]
          [] up = "WFR" -> [s EXCEPT !.meaning = Str("wavefront error"), !.i = s.i + 1]
          [] up = "NNB" -> [s EXCEPT !.i = s.i + 1]
          [] OTHER ->
               [s EXCEPT !.err = Error("ValueError", "parsing CV INT header: token not understood",
                                       params[s.i])]

\* the header loop, to its end or to the first exception
RECURSIVE ParseLoop(_, _)
ParseLoop(params, s) ==
    IF s.err.type # "" \/ s.i > Len(params) THEN s
    ELSE ParseLoop(params, ParseStep(params, s))

\* a header reader that would want GRD as the first word of the line
ParseHeaderGrdFirst(params) ==
    IF params # << >> /\ TokUpper(params[1]) # "GRD"
    THEN [ParseStart EXCEPT !.err = Error("ValueError",
                                          "parsing CV INT header: token not understood",
                                          params[1])]
    ELSE ParseLoop(params, ParseStart)

\* params = hdr.split(); i = 0; wvl, nda = None, None; while i < l: ...
ParseHeader(params) == ParseLoop(params, ParseStart)

Failed(err) == [ok |-> FALSE, err |-> err, rows |-> 0, cols |-> 0, cells |-> << >>,
                title |-> "", wavelength |-> Zero, meaning |-> ""]

\* a decode that would multiply by the wavelength instead of dividing by it
GridDecodeTimesWvl(a, nda, wvl, ssz) ==
    LET factor == Div(Mul(Num(1000), wvl), ssz)
    IN  [i \in 1..Len(a) |-> IF a[i] = nda THEN NaN ELSE Mul(Num(a[i]), factor)]

\* a = a.astype(config.precision) * (1000/wvl/ssz); a[mask] = np.nan
GridDecode(a, nda, wvl, ssz) ==
    LET factor == Div(Div(Num(1000), wvl), ssz)
    IN  [i \in 1..Len(a) |-> IF a[i] = nda THEN NaN ELSE Mul(Num(a[i]), factor)]

\* the checks and the decode after the header loop.  wvl and ssz are Python
\* floats, so a zero divisor raises instead of giving inf.
ReadAfterHeader(file, s) ==
    IF s.err.type # "" THEN Failed(s.err)
    ELSE IF s.wvl.st = "none"
    THEN Failed(Error("ValueError", "CV INT header did not contain WVL", Word("WVL")))
    ELSE IF s.nda.st = "none"
    THEN Failed(Error("ValueError", "CV INT (GRID) header did not contain NDA", Word("NDA")))
    ELSE IF s.m.st = "unbound"
    THEN Failed(Error("UnboundLocalError", "local variable referenced before assignment",
                      Word("m")))
    ELSE IF s.wvl.v = Zero
    THEN Failed(Error("ZeroDivisionError", "float division by zero", Word("WVL")))
    ELSE IF s.ssz.st = "unbound"
    THEN Failed(Error("UnboundLocalError", "local variable referenced before assignment",
                      Word("ssz")))
    ELSE IF s.ssz.v = Zero
    THEN Failed(Error("ZeroDivisionError", "float division by zero", Word("SSZ")))
    ELSE LET a    == Flatten(file.body)
             rows == NumOf(s.m.v)
             cols == NumOf(s.n.v)
         IN  IF Len(a) # rows * cols
             THEN Failed(Error("ValueError", "cannot reshape array", Word("GRD")))
             ELSE IF s.meaning.st = "unbound"
             THEN Failed(Error("UnboundLocalError",
                               "local variable referenced before assignment",
                               Word("meaning")))
             ELSE [ok |-> TRUE, err |-> NoError, rows |-> rows, cols |-> cols,
                   cells |-> GridDecode(a, NumOf(s.nda.v), s.wvl.v, s.ssz.v),
                   title |-> file.title, wavelength |-> s.wvl.v,
                   meaning |-> s.meaning.s]

\* The loop over the leading comment lines: while the text at hand shows a
\* '!', skip to the line after it.  bang counts the comment lines; the title,
\* the header line and the data hold no '!'.
RECURSIVE SkipComments(_)
SkipComments(file) ==
    IF file.bang = 0 THEN file ELSE SkipComments([file EXCEPT !.bang = file.bang - 1])

ReadGrid(file) ==
    LET txt == SkipComments(file)
    IN  ReadAfterHeader(txt, ParseHeader(txt.hdr))

(***************************************************************************)
(* write_zygo_dat / read_zygo_dat                                          *)
(***************************************************************************)
ZYGO_INVALID_PHASE == 2147483640

ZYGO_HEADER_SIZE == 834

UINT16_MAX == 65535

INT32_MAX == 2147483647

INT32_MIN == -2147483647 - 1

\* ZYGO_PHASE_RES_FACTORS[k]; 0 stands for a key the table lacks
ZYGO_PHASE_RES_FACTORS(k) ==
    CASE k = 0 -> 4096
      [] k = 1 -> 32768
      [] k = 2 -> 131072
      [] OTHER -> 0

\* a lookup that falls back to a factor when the key is not in the table
HasPhaseResOrDefault(k) == k \in {0, 1, 2, 3}

\* ZYGO_PHASE_RES_FACTORS[k] raises no KeyError
HasPhaseRes(k) == k \in {0, 1, 2}

\* _zygo_metadata_helper(): the header table in the order of the dict, one
\* record per field: name, struct code T, byte range [lo, hi), and dlen, the
\* length of the default when the default is a string
ZYGO_FIELDS ==
    <<
       [name |-> "magic_number", T |-> ">I", lo |-> 0, hi |-> 4, dlen |-> 0],
       [name |-> "header_format", T |-> ">H", lo |-> 4, hi |-> 6, dlen |-> 0],
       [name |-> "header_size", T |-> ">I", lo |-> 6, hi |-> 10, dlen |-> 0],
       [name |-> "swtype", T |-> ">H", lo |-> 10, hi |-> 12, dlen |-> 0],
       [name |-> "swdate", T |-> "<30s", lo |-> 12, hi |-> 42, dlen |-> 30],
       [name |-> "swmaj", T |-> ">H", lo |-> 42, hi |-> 44, dlen |-> 0],
       [name |-> "swmin", T |-> ">H", lo |-> 44, hi |-> 46, dlen |-> 0],
       [name |-> "swpatch", T |-> ">H", lo |-> 46, hi |-> 48, dlen |-> 0],
       [name |-> "ac_x", T |-> ">H", lo |-> 48, hi |-> 50, dlen |-> 0],
       [name |-> "ac_y", T |-> ">H", lo |-> 50, hi |-> 52, dlen |-> 0],
       [name |-> "ac_width", T |-> ">H", lo |-> 52, hi |-> 54, dlen |-> 0],
       [name |-> "ac_height", T |-> ">H", lo |-> 54, hi |-> 56, dlen |-> 0],
       [name |-> "ac_n_buckets", T |-> ">H", lo |-> 56, hi |-> 58, dlen |-> 0],
       [name |-> "ac_range", T |-> ">H", lo |-> 58, hi |-> 60, dlen |-> 0],
       [name |-> "ac_n_bytes", T |-> ">I", lo |-> 60, hi |-> 64, dlen |-> 0],
       [name |-> "cn_x", T |-> ">H", lo |-> 64, hi |-> 66, dlen |-> 0],
       [name |-> "cn_y", T |-> ">H", lo |-> 66, hi |-> 68, dlen |-> 0],
       [name |-> "cn_width", T |-> ">H", lo |-> 68, hi |-> 70, dlen |-> 0],
       [name |-> "cn_height", T |-> ">H", lo |-> 70, hi |-> 72, dlen |-> 0],
       [name |-> "cn_n_bytes", T |-> ">I", lo |-> 72, hi |-> 76, dlen |-> 0],
       [name |-> "timestamp", T |-> ">I", lo |-> 76, hi |-> 80, dlen |-> 0],
       [name |-> "comment", T |-> "<82s", lo |-> 80, hi |-> 162, dlen |-> 82],
       [name |-> "source", T |-> ">H", lo |-> 162, hi |-> 164, dlen |-> 0],
       [name |-> "scale_factor", T |-> ">f", lo |-> 164, hi |-> 168, dlen |-> 0],
       [name |-> "wavelength", T |-> ">f", lo |-> 168, hi |-> 172, dlen |-> 0],
       [name |-> "numerical_aperture", T |-> ">f", lo |-> 172, hi |-> 176, dlen |-> 0],
       [name |-> "obliquity_factor", T |-> ">f", lo |-> 176, hi |-> 180, dlen |-> 0],
       [name |-> "magnification", T |-> ">f", lo |-> 180, hi |-> 184, dlen |-> 0],
       [name |-> "lateral_resolution", T |-> ">f", lo |-> 184, hi |-> 188, dlen |-> 0],
       [name |-> "acq_type", T |-> ">H", lo |-> 188, hi |-> 190, dlen |-> 0],
       [name |-> "intensity_average_count", T |-> ">H", lo |-> 190, hi |-> 192, dlen |-> 0],
       [name |-> "sfac_limit", T |-> ">H", lo |-> 194, hi |-> 196, dlen |-> 0],
       [name |-> "ramp_cal", T |-> ">H", lo |-> 192, hi |-> 194, dlen |-> 0],
       [name |-> "ramp_gain", T |-> ">H", lo |-> 196, hi |-> 198, dlen |-> 0],
       [name |-> "part_thickness", T |-> ">f", lo |-> 198, hi |-> 202, dlen |-> 0],
       [name |-> "sw_llc", T |-> ">H", lo |-> 202, hi |-> 204, dlen |-> 0],
       [name |-> "target_range", T |-> ">f", lo |-> 204, hi |-> 208, dlen |-> 0],
       [name |-> "rad_crv_measure_seq", T |-> "<H", lo |-> 208, hi |-> 210, dlen |-> 0],
       [name |-> "min_mod", T |-> ">I", lo |-> 210, hi |-> 214, dlen |-> 0],
       [name |-> "min_mod_count", T |-> ">I", lo |-> 214, hi |-> 218, dlen |-> 0],
       [name |-> "phase_res", T |-> ">H", lo |-> 218, hi |-> 220, dlen |-> 0],
       [name |-> "min_area", T |-> ">I", lo |-> 220, hi |-> 224, dlen |-> 0],
       [name |-> "discontinuity_action", T |-> ">H", lo |-> 224, hi |-> 226, dlen |-> 0],
       [name |-> "discontinuity_filter", T |-> ">f", lo |-> 226, hi |-> 230, dlen |-> 0],
       [name |-> "connect_order", T |-> ">H", lo |-> 230, hi |-> 232, dlen |-> 0],
       [name |-> "sign", T |-> ">H", lo |-> 232, hi |-> 234, dlen |-> 0],
       [name |-> "camera_width", T |-> ">H", lo |-> 234, hi |-> 236, dlen |-> 0],
       [name |-> "camera_height", T |-> ">H", lo |-> 236, hi |-> 238, dlen |-> 0],
       [name |-> "sys_type", T |-> ">H", lo |-> 238, hi |-> 240, dlen |-> 0],
       [name |-> "sys_board", T |-> ">H", lo |-> 240, hi |-> 242, dlen |-> 0],
       [name |-> "sys_serial", T |-> ">H", lo |-> 242, hi |-> 244, dlen |-> 0],
       [name |-> "sys_inst_id", T |-> ">H", lo |-> 244, hi |-> 246, dlen |-> 0],
       [name |-> "obj_name", T |-> "<12s", lo |-> 246, hi |-> 258, dlen |-> 12],
       [name |-> "part_name", T |-> "<40s", lo |-> 258, hi |-> 298, dlen |-> 80],
       [name |-> "codev_type", T |-> ">H", lo |-> 298, hi |-> 300, dlen |-> 0],
       [name |-> "phase_avg_count", T |-> ">H", lo |-> 300, hi |-> 302, dlen |-> 0],
       [name |-> "sub_sys_err", T |-> ">H", lo |-> 302, hi |-> 304, dlen |-> 0],
       [name |-> "__pad0", T |-> "16x", lo |-> 304, hi |-> 320, dlen |-> 16],
       [name |-> "part_sn", T |-> "<40s", lo |-> 320, hi |-> 360, dlen |-> 40],
       [name |-> "refractive_index", T |-> ">f", lo |-> 360, hi |-> 364, dlen |-> 0],
       [name |-> "remove_tilt", T |-> ">H", lo |-> 364, hi |-> 366, dlen |-> 0],
       [name |-> "remove_fringes", T |-> ">H", lo |-> 366, hi |-> 368, dlen |-> 0],
       [name |-> "max_area", T |-> ">I", lo |-> 368, hi |-> 372, dlen |-> 0],
       [name |-> "setup_type", T |-> ">H", lo |-> 372, hi |-> 374, dlen |-> 0],
       [name |-> "wrapped", T |-> ">H", lo |-> 374, hi |-> 376, dlen |-> 0],
       [name |-> "pre_connect_filter", T |-> ">f", lo |-> 376, hi |-> 380, dlen |-> 0],
       [name |-> "__pad1", T |-> "6x", lo |-> 380, hi |-> 386, dlen |-> 6],
       [name |-> "wavelength_in_1", T |-> ">f", lo |-> 386, hi |-> 390, dlen |-> 0],
       [name |-> "wavelength_in_2", T |-> ">f", lo |-> 390, hi |-> 394, dlen |-> 0],
       [name |-> "wavelength_in_3", T |-> ">f", lo |-> 394, hi |-> 398, dlen |-> 0],
       [name |-> "wavelength_select", T |-> "<8s", lo |-> 398, hi |-> 406, dlen |-> 8],
       [name |-> "fda_res", T |-> ">H", lo |-> 406, hi |-> 408, dlen |-> 0],
       [name |-> "scan_description", T |-> "<20s", lo |-> 408, hi |-> 428, dlen |-> 20],
       [name |-> "n_fiducials", T |-> ">H", lo |-> 428, hi |-> 430, dlen |-> 0],
       [name |-> "fiducial_1", T |-> ">f", lo |-> 430, hi |-> 434, dlen |-> 0],
       [name |-> "fiducial_2", T |-> ">f", lo |-> 434, hi |-> 438, dlen |-> 0],
       [name |-> "fiducial_3", T |-> ">f", lo |-> 438, hi |-> 442, dlen |-> 0],
       [name |-> "fiducial_4", T |-> ">f", lo |-> 442, hi |-> 446, dlen |-> 0],
       [name |-> "fiducial_5", T |-> ">f", lo |-> 446, hi |-> 450, dlen |-> 0],
       [name |-> "fiducial_6", T |-> ">f", lo |-> 450, hi |-> 454, dlen |-> 0],
       [name |-> "fiducial_7", T |-> ">f", lo |-> 454, hi |-> 458, dlen |-> 0],
       [name |-> "fiducial_8", T |-> ">f", lo |-> 458, hi |-> 462, dlen |-> 0],
       [name |-> "fiducial_9", T |-> ">f", lo |-> 462, hi |-> 466, dlen |-> 0],
       [name |-> "fiducial_10", T |-> ">f", lo |-> 466, hi |-> 470, dlen |-> 0],
       [name |-> "fiducial_11", T |-> ">f", lo |-> 470, hi |-> 474, dlen |-> 0],
       [name |-> "fiducial_12", T |-> ">f", lo |-> 474, hi |-> 478, dlen |-> 0],
       [name |-> "fiducial_13", T |-> ">f", lo |-> 478, hi |-> 482, dlen |-> 0],
       [name |-> "fiducial_14", T |-> ">f", lo |-> 482, hi |-> 486, dlen |-> 0],
       [name |-> "pixel_width", T |-> ">f", lo |-> 486, hi |-> 490, dlen |-> 0],
       [name |-> "pixel_height", T |-> ">f", lo |-> 490, hi |-> 494, dlen |-> 0],
       [name |-> "exit_pupil_diameter", T |-> ">f", lo |-> 494, hi |-> 498, dlen |-> 0],
       [name |-> "light_level_percent", T |-> ">f", lo |-> 498, hi |-> 502, dlen |-> 0],
       [name |-> "coords_state", T |-> "<I", lo |-> 502, hi |-> 506, dlen |-> 0],
       [name |-> "coords_x", T |-> "<f", lo |-> 506, hi |-> 510, dlen |-> 0],
       [name |-> "coords_y", T |-> "<f", lo |-> 510, hi |-> 514, dlen |-> 0],
       [name |-> "coords_z", T |-> "<f", lo |-> 514, hi |-> 518, dlen |-> 0],
       [name |-> "coords_a", T |-> "<f", lo |-> 518, hi |-> 522, dlen |-> 0],
       [name |-> "coords_b", T |-> "<f", lo |-> 522, hi |-> 526, dlen |-> 0],
       [name |-> "coords_c", T |-> "<f", lo |-> 526, hi |-> 530, dlen |-> 0],
       [name |-> "cohrence_mode", T |-> "<H", lo |-> 530, hi |-> 532, dlen |-> 0],
       [name |-> "surface_filter", T |-> "<H", lo |-> 532, hi |-> 534, dlen |-> 0],
       [name |-> "sys_err_filename", T |-> "<28s", lo |-> 534, hi |-> 562, dlen |-> 28],
       [name |-> "zoom_descr", T |-> "<8s", lo |-> 562, hi |-> 570, dlen |-> 6],
       [name |-> "alpha_part", T |-> "<f", lo |-> 570, hi |-> 574, dlen |-> 0],
       [name |-> "beta_part", T |-> "<f", lo |-> 574, hi |-> 578, dlen |-> 0],
       [name |-> "dist_part", T |-> "<f", lo |-> 578, hi |-> 582, dlen |-> 0],
       [name |-> "cam_split_loc_x", T |-> "<H", lo |-> 582, hi |-> 584, dlen |-> 0],
       [name |-> "cam_split_loc_y", T |-> "<H", lo |-> 584, hi |-> 586, dlen |-> 0],
       [name |-> "cam_split_trans_x", T |-> "<H", lo |-> 586, hi |-> 588, dlen |-> 0],
       [name |-> "cam_split_trans_y", T |-> "<H", lo |-> 588, hi |-> 590, dlen |-> 0],
       [name |-> "material_a", T |-> "<24s", lo |-> 590, hi |-> 614, dlen |-> 24],
       [name |-> "material_b", T |-> "<24s", lo |-> 614, hi |-> 638, dlen |-> 24],
       [name |-> "__pad2", T |-> "4x", lo |-> 638, hi |-> 642, dlen |-> 4],
       [name |-> "dmi_center_x", T |-> "<f", lo |-> 642, hi |-> 646, dlen |-> 0],
       [name |-> "dmi_center_y", T |-> "<f", lo |-> 646, hi |-> 650, dlen |-> 0],
       [name |-> "sph_distortion_correction", T |-> "<H", lo |-> 650, hi |-> 652, dlen |-> 0],
       [name |-> "sph_dist_part_na", T |-> "<f", lo |-> 654, hi |-> 658, dlen |-> 0],
       [name |-> "sph_dist_part_radius", T |-> "<f", lo |-> 658, hi |-> 662, dlen |-> 0],
       [name |-> "sph_dist_cal_na", T |-> "<f", lo |-> 662, hi |-> 666, dlen |-> 0],
       [name |-> "sph_dist_cal_radius", T |-> "<f", lo |-> 666, hi |-> 670, dlen |-> 0],
       [name |-> "surface_type", T |-> "<H", lo |-> 670, hi |-> 672, dlen |-> 0],
       [name |-> "ac_surface_type", T |-> "<H", lo |-> 672, hi |-> 674, dlen |-> 0],
       [name |-> "z_pos", T |-> "<f", lo |-> 674, hi |-> 678, dlen |-> 0],
       [name |-> "power_mul", T |-> "<f", lo |-> 678, hi |-> 682, dlen |-> 0],
       [name |-> "focus_mul", T |-> "<f", lo |-> 682, hi |-> 686, dlen |-> 0],
       [name |-> "roc_focus_cal_factor", T |-> "<f", lo |-> 686, hi |-> 690, dlen |-> 0],
       [name |-> "roc_power_cal_factor", T |-> "<f", lo |-> 690, hi |-> 694, dlen |-> 0],
       [name |-> "ftp_pos_left", T |-> "<f", lo |-> 694, hi |-> 698, dlen |-> 0],
       [name |-> "ftp_pos_right", T |-> "<f", lo |-> 698, hi |-> 702, dlen |-> 0],
       [name |-> "ftp_pos_pitch", T |-> "<f", lo |-> 702, hi |-> 706, dlen |-> 0],
       [name |-> "ftp_pos_roll", T |-> "<f", lo |-> 706, hi |-> 710, dlen |-> 0],
       [name |-> "min_mod_percent", T |-> "<f", lo |-> 710, hi |-> 714, dlen |-> 0],
       [name |-> "max_intens", T |-> "<I", lo |-> 714, hi |-> 718, dlen |-> 0],
       [name |-> "ring_of_fire", T |-> "<H", lo |-> 718, hi |-> 720, dlen |-> 0],
       [name |-> "__pad3", T |-> "x", lo |-> 720, hi |-> 721, dlen |-> 1],
       [name |-> "rc_orientation", T |-> "c", lo |-> 721, hi |-> 722, dlen |-> 1],
       [name |-> "rc_distance", T |-> "<f", lo |-> 722, hi |-> 726, dlen |-> 0],
       [name |-> "rc_angle", T |-> "<f", lo |-> 726, hi |-> 730, dlen |-> 0],
       [name |-> "rc_diameter", T |-> "<f", lo |-> 730, hi |-> 734, dlen |-> 0],
       [name |-> "rem_fringes_mode", T |-> ">H", lo |-> 734, hi |-> 736, dlen |-> 0],
       [name |-> "__pad4", T |-> "x", lo |-> 736, hi |-> 737, dlen |-> 1],
       [name |-> "ftpsi_phase_res", T |-> "B", lo |-> 737, hi |-> 738, dlen |-> 0],
       [name |-> "frames_acquired", T |-> "<H", lo |-> 738, hi |-> 740, dlen |-> 0],
       [name |-> "cavity_type", T |-> "<H", lo |-> 740, hi |-> 742, dlen |-> 0],
       [name |-> "cam_frame_rate", T |-> "<f", lo |-> 742, hi |-> 746, dlen |-> 0],
       [name |-> "tune_range", T |-> "<f", lo |-> 746, hi |-> 750, dlen |-> 0],
       [name |-> "cal_pix_x", T |-> "<H", lo |-> 750, hi |-> 752, dlen |-> 0],
       [name |-> "cal_pix_y", T |-> "<H", lo |-> 752, hi |-> 754, dlen |-> 0],
       [name |-> "test_cal_pts_1", T |-> "<f", lo |-> 758, hi |-> 762, dlen |-> 0],
       [name |-> "test_cal_pts_2", T |-> "<f", lo |-> 762, hi |-> 766, dlen |-> 0],
       [name |-> "test_cal_pts_3", T |-> "<f", lo |-> 766, hi |-> 770, dlen |-> 0],
       [name |-> "test_cal_pts_4", T |-> "<f", lo |-> 770, hi |-> 774, dlen |-> 0],
       [name |-> "ref_cal_pts_1", T |-> "<f", lo |-> 774, hi |-> 778, dlen |-> 0],
       [name |-> "ref_cal_pts_2", T |-> "<f", lo |-> 778, hi |-> 782, dlen |-> 0],
       [name |-> "ref_cal_pts_3", T |-> "<f", lo |-> 782, hi |-> 786, dlen |-> 0],
       [name |-> "ref_cal_pts_4", T |-> "<f", lo |-> 786, hi |-> 790, dlen |-> 0],
       [name |-> "test_cal_pix_opd", T |-> "<f", lo |-> 790, hi |-> 794, dlen |-> 0],
       [name |-> "test_ref_pix_opd", T |-> "<f", lo |-> 794, hi |-> 798, dlen |-> 0],
       [name |-> "flash_phase_cd_mask", T |-> "<f", lo |-> 798, hi |-> 802, dlen |-> 0],
       [name |-> "flash_phase_alias_mask", T |-> "<f", lo |-> 802, hi |-> 806, dlen |-> 0],
       [name |-> "flash_phase_filter", T |-> "<f", lo |-> 806, hi |-> 810, dlen |-> 0],
       [name |-> "scan_direction", T |-> "B", lo |-> 810, hi |-> 811, dlen |-> 0],
       [name |-> "ftpsi_res_factor", T |-> "<H", lo |-> 814, hi |-> 816, dlen |-> 0]
    >>

\* a range that takes hi as its last byte
FieldRangeInclusive(f) == f.lo..f.hi

\* the bytes of a field: file_contents[lo:hi], and the calcsize(T) bytes
\* that pack_into writes from lo on
FieldRange(f) == f.lo..(f.hi - 1)

ZYGO_PAD_NAMES == {"__pad0", "__pad1", "__pad2", "__pad3", "__pad4"}

\* k.startswith('__pad')
IsPad(f) == f.name \in ZYGO_PAD_NAMES

\* 's' in T
IsStrCode(T) == T \in {"<30s", "<82s", "<12s", "<40s", "<8s", "<20s", "<28s", "<24s"}

\* struct.calcsize(T)
CalcSize(T) ==
    CASE T \in {">H", "<H"} -> 2
      [] T \in {">I", "<I", ">f", "<f"} -> 4
      [] T \in {"B", "c", "x"} -> 1
      [] T = "4x" -> 4
      [] T = "6x" -> 6
      [] T = "16x" -> 16
      [] T = "<8s" -> 8
      [] T = "<12s" -> 12
      [] T = "<20s" -> 20
      [] T = "<24s" -> 24
      [] T = "<28s" -> 28
      [] T = "<30s" -> 30
      [] T = "<40s" -> 40
      [] T = "<82s" -> 82

\* the exponent e of the float32 unit in the last place of x > 0:
\* 2^23 <= x / 2^e < 2^24 (normal range)
RECURSIVE F32Ulp(_, _)
F32Ulp(x, e) ==
    LET y == Mul(x, Mk(1, 1, -e, 0))
    IN  IF BelowPow2(y, 23) THEN F32Ulp(x, e - 1)
        ELSE IF ~BelowPow2(y, 24) THEN F32Ulp(x, e + 1)
        ELSE e

\* struct.pack('>f', x) then struct.unpack: x rounded to the nearest float32,
\* ties to even
F32(x) ==
    IF ~IsFin(x) \/ x = Zero THEN x
    ELSE LET a == NumAbs(x)
             e == F32Ulp(a, a.b)
             m == RoundHalfEven(Mul(a, Mk(1, 1, -e, 0)))
         IN  Mul(Num(Sign(x.n) * m), Mk(1, 1, e, 0))

\* the four bytes of an int32, most significant first, two's complement
\* (dtype int32 with byte order '>')
Int32Bytes(c) ==
    LET u   == IF c >= 0 THEN c ELSE -(c + 1)
        raw == << u \div 16777216, (u \div 65536) % 256, (u \div 256) % 256, u % 256 >>
    IN  IF c >= 0 THEN raw ELSE [j \in 1..4 |-> 255 - raw[j]]

\* np.frombuffer(..., dtype='>i4') on four bytes
Int32Of(bytes) ==
    LET u(bs) == bs[1] * 16777216 + bs[2] * 65536 + bs[3] * 256 + bs[4]
    IN  IF bytes[1] < 128 THEN u(bytes)
        ELSE -u([j \in 1..4 |-> 255 - bytes[j]]) - 1

\* (phase*1e-3*phase_res_fctr)/(wavelength) on one cell, phase_res_fctr 32768
ZygoQuantize(x, wavelength) ==
    Div(Mul(Mul(x, Dec(1, -3)), Num(ZYGO_PHASE_RES_FACTORS(1))), wavelength)

\* .astype(np.int32) of a float.  In range the C cast drops the fraction;
\* out of range (or inf, nan) it is undefined: builds yield the "integer
\* indefinite" pattern or saturate.
CastInt32(x) ==
    IF ~IsFin(x) THEN {INT32_MIN, 0}
    ELSE IF ~BelowPow2(x, 31) THEN {INT32_MIN, IF x.n < 0 THEN INT32_MIN ELSE INT32_MAX}
    ELSE {Trunc(x)}

\* the int32 arrays im can hold after im[mask] = 2147483640
ZygoCodes(cells, wavelength) ==
    Choices([i \in 1..Len(cells) |->
                IF IsNaN(cells[i]) THEN {ZYGO_INVALID_PHASE}
                ELSE CastInt32(ZygoQuantize(cells[i], wavelength))])

\* the fields of the packed header that read_zygo_dat uses, each as
\* struct.unpack gives it back; the table defaults but for the fields
\* write_zygo_dat sets
ZygoHeader(phase, wavelength) ==
    [header_size      |-> ZYGO_HEADER_SIZE,
     ac_width         |-> 0,
     ac_height        |-> 0,
     ac_n_buckets     |-> 0,
     cn_width         |-> phase.cols,
     cn_height        |-> phase.rows,
     cn_n_bytes       |-> Len(phase.cells) * 4,
     scale_factor     |-> F32(Num(1)),
     wavelength       |-> F32(Div(wavelength, Dec(1, 6))),
     obliquity_factor |-> F32(Num(1)),
     phase_res        |-> 1]

\* the file: fid.write(buf); fid.write(bufphs)
ZygoFile(phase, wavelength, codes) ==
    [hdr    |-> ZygoHeader(phase, wavelength),
     hlen   |-> ZYGO_HEADER_SIZE,
     badstr |-> {},
     data |-> Flatten([i \in 1..Len(codes) |-> Int32Bytes(codes[i])])]

ZygoFailed(err) ==
    [ok |-> FALSE, err |-> err, rows |-> 0, cols |-> 0, phase |-> << >>,
     irows |-> 0, icols |-> 0, intensity |-> << >>]

\* The contents of a .dat file are kept as: hdr, the values of the header
\* fields read_zygo_dat uses; hlen, the number of bytes present of the 834
\* header bytes; badstr, the string fields whose bytes are not UTF-8; data,
\* the bytes from offset 834 on (none when hlen < 834).
BufLen(file) == file.hlen + Len(file.data)

\* v = struct.unpack(T, file_contents[lo:hi])[0], and for a string field
\* v.decode(ZYGO_ENC): the error raised, NoError when there is none
UnpackField(file, f) ==
    IF Min(BufLen(file), f.hi) - f.lo # CalcSize(f.T)
    THEN Error("struct.error", "unpack requires a buffer of the size of the format",
               Word(f.name))
    ELSE IF IsStrCode(f.T) /\ f.name \in file.badstr
    THEN Error("UnicodeDecodeError", "'utf-8' codec can't decode byte", Word(f.name))
    ELSE NoError

\* the fields, by position in the table, at which the loop of
\* read_zygo_metadata raises when it gets there
MetaFailing(file) ==
    {i \in 1..Len(ZYGO_FIELDS) :
        ~IsPad(ZYGO_FIELDS[i]) /\ UnpackField(file, ZYGO_FIELDS[i]).type # ""}

\* read_zygo_metadata(file_contents): the loop stops at the first field that
\* raises and the error is re-raised; otherwise out has one key per field
\* that is not padding
ReadZygoMetadata(file) ==
    LET failing == MetaFailing(file)
        first   == CHOOSE i \in failing : \A j \in failing : i <= j
    IN  IF failing # {}
        THEN [ok |-> FALSE, err |-> UnpackField(file, ZYGO_FIELDS[first]), keys |-> {}]
        ELSE [ok   |-> TRUE,
              err  |-> NoError,
              keys |-> {ZYGO_FIELDS[i].name :
                           i \in {j \in 1..Len(ZYGO_FIELDS) : ~IsPad(ZYGO_FIELDS[j])}}]

\* phase_raw.astype(config.precision) on one int32: exact in float64
AsFloat(code) == IF code = INT32_MIN THEN Mk(-1, 1, 31, 0) ELSE Num(code)

\* a decode that leaves the obliquity factor out
ZygoDecodeNoObliquity(code, meta) ==
    IF code >= ZYGO_INVALID_PHASE THEN NaN
    ELSE Mul(AsFloat(code),
             Mul(Div(Mul(meta.scale_factor, meta.wavelength),
                     Num(ZYGO_PHASE_RES_FACTORS(meta.phase_res))),
                 Dec(1, 9)))

\* phase[phase >= ZYGO_INVALID_PHASE] = np.nan;
\* phase *= (scale_factor * obliquity_factor * wavelength / R[phase_res]) * 1e9
ZygoDecode(code, meta) ==
    IF code >= ZYGO_INVALID_PHASE THEN NaN
    ELSE Mul(AsFloat(code),
             Mul(Div(Mul(Mul(meta.scale_factor, meta.obliquity_factor), meta.wavelength),
                     Num(ZYGO_PHASE_RES_FACTORS(meta.phase_res))),
                 Dec(1, 9)))

\* multi_intensity_action.lower()
PolicyLower(a) ==
    CASE a = "AVG" -> "avg"
      [] a = "First" -> "first"
      [] a = "LAST" -> "last"
      [] OTHER -> a

\* one uint16 of np.frombuffer(..., dtype=np.uint16): native byte order,
\* least significant byte first on the little-endian machines numpy runs on
Uint16Of(bytes) == bytes[1] + 256 * bytes[2]

RECURSIVE SumOver(_, _)
SumOver(vals, idx) ==
    IF idx = << >> THEN 0 ELSE vals[Head(idx)] + SumOver(vals, Tail(idx))

\* a reduction that returns bucket 0 whatever the policy
IntensityReduceFirst(vals, ib, frame, policy) == [k \in 1..frame |-> Num(vals[k])]

\* intensity.mean(axis=0), intensity[0], intensity[-1] on the array of shape
\* (ib, ih, iw) that holds vals in C order
IntensityReduce(vals, ib, frame, policy) ==
    [k \in 1..frame |->
        CASE policy = "avg" ->
               Div(Num(SumOver(vals, [b \in 1..ib |-> (b - 1) * frame + k])), Num(ib))
          [] policy = "first" -> Num(vals[k])
          [] policy = "last" -> Num(vals[(ib - 1) * frame + k])]

\* read_zygo_dat on the contents of a file.  data[1] is the byte at offset
\* 834; the intensity block is uint16, the phase block int32.
ReadZygo(file, multi_intensity_action) ==
    LET md         == ReadZygoMetadata(file)
        meta       == file.hdr
        iw         == meta.ac_width
        ih         == meta.ac_height
        ib         == IF meta.ac_n_buckets = 0 THEN 1 ELSE meta.ac_n_buckets
        ilen       == iw * ih * ib
        plen       == meta.cn_width * meta.cn_height
        header_len == meta.header_size
        start      == header_len - file.hlen
        at         == start + ilen * 2
        policy     == PolicyLower(multi_intensity_action)
        short      == Error("ValueError", "buffer is smaller than requested size", Word(""))
    IN  IF ~md.ok THEN ZygoFailed(md.err)
        ELSE IF start < 0 \/ Len(file.data) < start + ilen * 2 THEN ZygoFailed(short)
        ELSE IF policy \notin {"avg", "first", "last"}
        THEN ZygoFailed(Error("ValueError",
                              "multi_intensity_action not among valid options",
                              Word(multi_intensity_action)))
        ELSE IF Len(file.data) < at + plen * 4 THEN ZygoFailed(short)
        ELSE IF ~HasPhaseRes(meta.phase_res)
        THEN ZygoFailed(Error("KeyError", "phase_res", Word("phase_res")))
        ELSE [ok    |-> TRUE,
              err   |-> NoError,
              rows  |-> meta.cn_height,
              cols  |-> meta.cn_width,
              phase |-> [i \in 1..plen |->
                            ZygoDecode(Int32Of(Slice(file.data, at + 4 * i - 3, at + 4 * i)),
                                       meta)],
              irows |-> ih,
              icols |-> iw,
              intensity |->
                  IntensityReduce([k \in 1..ilen |->
                                      Uint16Of(Slice(file.data, start + 2 * k - 1,
                                                     start + 2 * k))],
                                  ib, ih * iw, policy)]

(***************************************************************************)
(* State                                                                   *)
(***************************************************************************)
VARIABLES
    g_pc,       \* grid codec: "idle", "start", "written", "read", "failed"
    g_case,     \* how the input of the run was built (never read by the code)
    g_array,    \* write_codev_gridint's array, nm: [rows, cols, cells]
    g_typ,      \* write_codev_gridint's typ
    g_rounded,  \* np.around(array * scale), before the cast to int16
    g_file,     \* the grid-sag file: [bang, title, hdr, body]
    g_out,      \* what read_codev_gridint returned or raised
    w_pc,       \* row-width search: "idle", "search", "done"
    w_size,     \* array.size
    w_width,    \* width
    w_shape,    \* the shape of the reshaped array: [lines, perline]
    z_pc,       \* zygo codec: "idle", "start", "written", "read", "failed"
    z_phase,    \* write_zygo_dat's phase, nm: [rows, cols, cells]
    z_wvl,      \* write_zygo_dat's wavelength, um
    z_action,   \* read_zygo_dat's multi_intensity_action
    z_case,     \* what a hand-built .dat file was built from: [family, codes, frames]
    z_file,     \* the .dat file: [hdr, hlen, badstr, data]
    z_out,      \* what read_zygo_dat returned or raised
    c_fn,       \* any other function being run: its name, "" when there is none
    c_pc,       \* its position
    c_args,     \* its arguments
    c_locals,   \* its local variables
    c_out       \* what it returned or raised

vars == << g_pc, g_case, g_array, g_typ, g_rounded, g_file, g_out,
           w_pc, w_size, w_width, w_shape,
           z_pc, z_phase, z_wvl, z_action, z_case, z_file, z_out,
           c_fn, c_pc, c_args, c_locals, c_out >>

g_vars == << g_pc, g_case, g_array, g_typ, g_rounded, g_file, g_out >>

w_vars == << w_pc, w_size, w_width, w_shape >>

z_vars == << z_pc, z_phase, z_wvl, z_action, z_case, z_file, z_out >>

c_vars == << c_fn, c_pc, c_args, c_locals, c_out >>

\* what an action of one codec leaves alone: the variables of the others
not_g_vars == << w_vars, z_vars, c_vars >>

not_w_vars == << g_vars, z_vars, c_vars >>

not_z_vars == << g_vars, w_vars, c_vars >>

not_c_vars == << g_vars, w_vars, z_vars >>

NoArray == [rows |-> 0, cols |-> 0, cells |-> << >>]

NoFile == [bang |-> 0, title |-> "", hdr |-> << >>, body |-> << >>]

NoCase ==
    [family |-> "none", order |-> << >>, junk |-> 0, lower |-> FALSE, kind |-> "",
     r |-> 0, c |-> 0, w |-> Zero, s |-> Zero, n |-> 0, flat |-> << >>, bang |-> 0]

GridIdle ==
    /\ g_pc = "idle"
    /\ g_case = NoCase
    /\ g_array = NoArray
    /\ g_typ = ""
    /\ g_rounded = << >>
    /\ g_file = NoFile
    /\ g_out = Failed(NoError)

WidthIdle ==
    /\ w_pc = "idle"
    /\ w_size = 0
    /\ w_width = 0
    /\ w_shape = [lines |-> 0, perline |-> 0]

NoZygoCase == [family |-> "", codes |-> << >>, frames |-> << >>]

NoZygoFile == [hdr |-> ZygoHeader(NoArray, Zero), hlen |-> 0, badstr |-> {}, data |-> << >>]

ZygoIdle ==
    /\ z_pc = "idle"
    /\ z_phase = NoArray
    /\ z_wvl = Zero
    /\ z_action = ""
    /\ z_case = NoZygoCase
    /\ z_file = NoZygoFile
    /\ z_out = ZygoFailed(NoError)

CallIdle ==
    /\ c_fn = ""
    /\ c_pc = "idle"
    /\ c_args = << >>
    /\ c_locals = << >>
    /\ c_out = NoError

\* every codec but the named one is idle
IdleBut(codec) ==
    /\ codec = "grid" \/ GridIdle
    /\ codec = "width" \/ WidthIdle
    /\ codec = "zygo" \/ ZygoIdle
    /\ codec = "call" \/ CallIdle

(***************************************************************************)
(* Bounds and inputs                                                       *)
(***************************************************************************)
MaxCells == 3

MaxSize == 600

\* cells of the arrays written, nm
GRID_VALUES == {NaN, Num(-10000), Zero, Num(1), Num(5000), Num(32768)}

GRID_TYPS == {"SUR", "WFR", "FIL", "sur", "ZFR"}

Shapes(maxCells) ==
    { sh \in (1..maxCells) \X (1..maxCells) : sh[1] * sh[2] <= maxCells }

(***************************************************************************)
(* Grid codec: write, then read back                                       *)
(***************************************************************************)
TypUpper(typ) == IF typ = "sur" THEN "SUR" ELSE typ

\* write_codev_gridint(array, filename, typ=g_typ), comment left at ''
write_codev_gridint ==
    /\ g_pc = "start"
    /\ IF TypUpper(g_typ) \notin {"SUR", "WFR", "FIL"}
       THEN /\ g_pc' = "failed"
            /\ g_out' = Failed(Error("AssertionError",
                                     "typ must be one of SUR, WFR, FIL", Word(g_typ)))
            /\ UNCHANGED << g_rounded, g_file >>
       ELSE /\ g_pc' = "written"
            /\ g_rounded' = GridRounded(g_array.cells)
            /\ \E codes \in GridCodes(g_array.cells) :
                  g_file' = GridFile(g_array, "", TypUpper(g_typ), codes)
            /\ UNCHANGED g_out
    /\ UNCHANGED << g_case, g_array, g_typ >>
    /\ UNCHANGED not_g_vars

\* read_codev_gridint(file)
read_codev_gridint ==
    /\ g_pc = "written"
    /\ g_out' = ReadGrid(g_file)
    /\ g_pc' = IF g_out'.ok THEN "read" ELSE "failed"
    /\ UNCHANGED << g_case, g_array, g_typ, g_rounded, g_file >>
    /\ UNCHANGED not_g_vars

InitGrid ==
    /\ g_pc = "start"
    /\ g_case = [NoCase EXCEPT !.family = "roundtrip"]
    /\ \E sh \in Shapes(MaxCells) :
          \E cells \in SeqsOf(GRID_VALUES, sh[1] * sh[2]) :
              g_array = [rows |-> sh[1], cols |-> sh[2], cells |-> cells]
    /\ g_typ \in GRID_TYPS
    /\ g_rounded = << >>
    /\ g_file = NoFile
    /\ g_out = Failed(NoError)
    /\ IdleBut("grid")

NextGrid == write_codev_gridint \/ read_codev_gridint

SpecGrid == InitGrid /\ [][NextGrid]_vars

(***************************************************************************)
(* Row-width search of write_codev_gridint, one loop pass per step         *)
(***************************************************************************)
\* a search that would try every other width only
WidthStepByTwo(width) == width - 2

\* width -= 1
WidthStep(width) == width - 1

\* while (array.size % width) != 0: width -= 1
WidthDecrement ==
    /\ w_pc = "search"
    /\ w_size % w_width # 0
    /\ w_width' = WidthStep(w_width)
    /\ UNCHANGED << w_pc, w_size, w_shape >>
    /\ UNCHANGED not_w_vars

\* the loop ends; array.ravel().reshape((width, array.size // width)) and
\* np.savetxt writes one line per row of it
WidthEmit ==
    /\ w_pc = "search"
    /\ w_size % w_width = 0
    /\ w_pc' = "done"
    /\ w_shape' = [lines |-> w_width, perline |-> w_size \div w_width]
    /\ UNCHANGED << w_size, w_width >>
    /\ UNCHANGED not_w_vars

InitWidth ==
    /\ w_pc = "search"
    /\ w_size \in 1..MaxSize
    /\ w_width = GRID_MAX_WIDTH
    /\ w_shape = [lines |-> 0, perline |-> 0]
    /\ IdleBut("width")

NextWidth == WidthDecrement \/ WidthEmit

SpecWidth == InitWidth /\ [][NextWidth]_vars

(***************************************************************************)
(* Grid-sag files built by hand, read by read_codev_gridint                *)
(***************************************************************************)
MaxBody == 4

GROUPS == {"GRD", "KIND", "WVL", "SSZ", "NDA", "NNB"}

BODY_INTS == {0, -32768, 100, 200}

\* (WVL, SSZ, NDA) of the hand-built headers, and the number of '!' comment
\* lines before the title
BODY_PARAMS ==
    { [w |-> Num(1), s |-> Num(2), n |-> -32768, bang |-> 0],
      [w |-> Num(1), s |-> Num(2), n |-> -32768, bang |-> 1],
      [w |-> Frac(1, 2), s |-> Frac(32767, 10), n |-> 0, bang |-> 0] }

RECURSIVE Perms(_)
Perms(S) ==
    IF S = {} THEN { << >> }
    ELSE UNION { { << x >> \o q : q \in Perms(S \ {x}) } : x \in S }

\* the ways to cut a sequence into non-empty lines
RECURSIVE Splits(_)
Splits(flat) ==
    IF flat = << >> THEN { << >> }
    ELSE UNION { { << SubSeq(flat, 1, k) >> \o rest :
                     rest \in Splits(SubSeq(flat, k + 1, Len(flat))) } :
                 k \in 1..Len(flat) }

Lower(w) ==
    CASE w = "GRD" -> "grd"
      [] w = "WVL" -> "wvl"
      [] w = "SSZ" -> "ssz"
      [] w = "NDA" -> "nda"
      [] w = "SUR" -> "sur"
      [] w = "WFR" -> "wfr"
      [] w = "NNB" -> "nnb"
      [] OTHER -> w

KeyTok(w, lower) == Word(IF lower THEN Lower(w) ELSE w)

\* the tokens of one keyword group of a header
GroupTokens(g, c) ==
    CASE g = "GRD"  -> << KeyTok("GRD", c.lower), IntTok(c.r), IntTok(c.c) >>
      [] g = "KIND" -> << KeyTok(c.kind, c.lower) >>
      [] g = "WVL"  -> << KeyTok("WVL", c.lower), FloatTok(c.w) >>
      [] g = "SSZ"  -> << KeyTok("SSZ", c.lower), FloatTok(c.s) >>
      [] g = "NDA"  -> << KeyTok("NDA", c.lower), IntTok(c.n) >>
      [] g = "NNB"  -> << KeyTok("NNB", c.lower) >>

JUNK == Word("XYZ")

InsertAt(seq, p, tok) ==
    SubSeq(seq, 1, p - 1) \o << tok >> \o SubSeq(seq, p, Len(seq))

CaseHeader(c) ==
    LET clean == Flatten([j \in 1..Len(c.order) |-> GroupTokens(c.order[j], c)])
    IN  IF c.junk = 0 THEN clean ELSE InsertAt(clean, c.junk, JUNK)

CANONICAL == << "GRD", "KIND", "WVL", "SSZ", "NDA" >>

HeaderLength(order) == Len(Flatten([j \in 1..Len(order) |-> GroupTokens(order[j], NoCase)]))

\* every order of the six groups, or of five of them
ORDERS == Perms(GROUPS) \cup UNION { Perms(GROUPS \ {g}) : g \in GROUPS }

\* headers: an order of the groups, with or without one unknown word put in
\* at any place, keywords in upper or lower case; one fixed 2 x 2 body
HeaderCase(o, kd, j, lw) ==
    [NoCase EXCEPT !.family = "header", !.order = o, !.kind = kd, !.junk = j,
                   !.lower = lw, !.r = 2, !.c = 2, !.w = Num(1), !.s = Num(2),
                   !.n = -32768, !.flat = << 0, -32768, 100, 200 >>]

\* bodies: the canonical header over a shape, a body, a sentinel and a scale
BodyCase(sh, fl, q) ==
    [NoCase EXCEPT !.family = "body", !.order = CANONICAL, !.kind = "SUR",
                   !.r = sh[1], !.c = sh[2], !.w = q.w, !.s = q.s, !.n = q.n,
                   !.flat = fl, !.bang = q.bang]

CaseFile(c, lines) ==
    [bang |-> c.bang, title |-> "title", hdr |-> CaseHeader(c), body |-> lines]

\* what is not the file at hand, before read_codev_gridint runs
ReadStart ==
    /\ g_pc = "written"
    /\ g_array = NoArray
    /\ g_typ = ""
    /\ g_rounded = << >>
    /\ g_out = Failed(NoError)
    /\ IdleBut("grid")

InitHeader ==
    /\ \E o \in ORDERS, kd \in {"SUR", "WFR"}, lw \in BOOLEAN :
          \E j \in 0..(HeaderLength(o) + 1) :
              /\ ~lw \/ j = 0
              /\ g_case = HeaderCase(o, kd, j, lw)
              /\ g_file = CaseFile(g_case, << g_case.flat >>)
    /\ ReadStart

InitBody ==
    /\ \E sh \in Shapes(MaxBody), q \in BODY_PARAMS :
          \E fl \in SeqsOf(BODY_INTS, sh[1] * sh[2]) :
              /\ g_case = BodyCase(sh, fl, q)
              /\ \E lines \in Splits(fl) : g_file = CaseFile(g_case, lines)
    /\ ReadStart

NextRead == read_codev_gridint

SpecHeader == InitHeader /\ [][NextRead]_vars

SpecBody == InitBody /\ [][NextRead]_vars

(***************************************************************************)
(* Zygo codec: write, then read back                                       *)
(***************************************************************************)
MaxPhaseCells == 2

\* 2^-21 m = 0.476837158203125 um: a float32, one code is 2^-36 m
WVL_EXACT == Mk(1, 1, -15, 6)

\* 44529341 * 2^-46 m = 0.63279999551... um: a float64 that lies a quarter
\* of a unit in the last place above the float32 11132335 * 2^-44 m
WVL_HENE == Mk(44529341, 1, -40, 6)

\* phases (nm) written at WVL_EXACT: 1.5 and -1.5 codes, the largest code
\* below the sentinel, and the finite phase whose code is the sentinel
PHASES_EXACT ==
    { NaN, Zero, Mk(3, 1, -28, 9), Mk(-3, 1, -28, 9),
      Mk(ZYGO_INVALID_PHASE - 1, 1, -27, 9), Mk(ZYGO_INVALID_PHASE, 1, -27, 9) }

\* phases (nm) written at WVL_HENE, in units of 2^-59 m: 4 codes exactly,
\* and one unit short of 8 codes, of either sign
PHASES_HENE ==
    { NaN, Zero, Mk(44529341, 1, -50, 9), Mk(89058681, 1, -50, 9),
      Mk(-89058681, 1, -50, 9) }

ZYGO_INPUTS ==
    { [wavelength |-> WVL_EXACT, phases |-> PHASES_EXACT],
      [wavelength |-> WVL_HENE, phases |-> PHASES_HENE] }

\* write_zygo_dat(file, phase, dx, wavelength=z_wvl)
write_zygo_dat ==
    /\ z_pc = "start"
    /\ IF z_phase.cols > UINT16_MAX \/ z_phase.rows > UINT16_MAX
       THEN /\ z_pc' = "failed"
            /\ z_out' = ZygoFailed(Error("struct.error", "'H' format requires 0 <= number <= 65535",
                                         Word("cn_width")))
            /\ UNCHANGED z_file
       ELSE /\ z_pc' = "written"
            /\ \E codes \in ZygoCodes(z_phase.cells, z_wvl) :
                  z_file' = ZygoFile(z_phase, z_wvl, codes)
            /\ UNCHANGED z_out
    /\ UNCHANGED << z_phase, z_wvl, z_action, z_case >>
    /\ UNCHANGED not_z_vars

\* read_zygo_dat(file, multi_intensity_action=z_action)
read_zygo_dat ==
    /\ z_pc = "written"
    /\ z_out' = ReadZygo(z_file, z_action)
    /\ z_pc' = IF z_out'.ok THEN "read" ELSE "failed"
    /\ UNCHANGED << z_phase, z_wvl, z_action, z_case, z_file >>
    /\ UNCHANGED not_z_vars

InitZygo ==
    /\ z_pc = "start"
    /\ \E inp \in ZYGO_INPUTS, sh \in Shapes(MaxPhaseCells) :
          \E cells \in SeqsOf(inp.phases, sh[1] * sh[2]) :
              /\ z_wvl = inp.wavelength
              /\ z_phase = [rows |-> sh[1], cols |-> sh[2], cells |-> cells]
    /\ z_action = "first"
    /\ z_case = [family |-> "roundtrip", codes |-> << >>, frames |-> << >>]
    /\ z_file = NoZygoFile
    /\ z_out = ZygoFailed(NoError)
    /\ IdleBut("zygo")

NextZygo == write_zygo_dat \/ read_zygo_dat

SpecZygo == InitZygo /\ [][NextZygo]_vars

(***************************************************************************)
(* Zygo reader on hand-built files                                         *)
(***************************************************************************)
MaxBuckets == 2

\* the wavelength field of a header: 2^-21 m, and the float32 nearest to
\* 632.8 nm, 11132335 * 2^-44 m
WVL_FIELD_EXACT == Mk(1, 1, -21, 0)

WVL_FIELD_HENE == Mk(11132335, 1, -44, 0)

\* phase codes on either side of the sentinel, and the extremes of int32
CODES_EXACT ==
    { 0, 3, -3, 32768, ZYGO_INVALID_PHASE - 1, ZYGO_INVALID_PHASE, INT32_MAX, INT32_MIN }

CODES_HENE == { 0, 3, 32768, -32768, 131072, ZYGO_INVALID_PHASE, INT32_MAX }

\* the four codes of a 2 x 2 phase block, in file order
CODES_EXAMPLE == << 0, 32768, ZYGO_INVALID_PHASE, -32768 >>

\* scale_factor and obliquity_factor
FACTORS == { << Num(1), Num(1) >>, << Num(2), Frac(1, 2) >>, << Frac(1, 2), Num(1) >>,
             << Num(5), Frac(1, 4) >> }

PHASE_RES == { 0, 1, 2, 3 }

POLICIES == { "avg", "first", "last", "AVG", "First", "median", "mean", "" }

\* intensity values; 258 and 513 differ only by the order of their bytes
COUNTS == { 258, 513, UINT16_MAX }

FRAMES == { << 0, 0 >>, << 1, 1 >>, << 2, 1 >> }

\* np.uint16 in the byte order of the machine
Uint16Bytes(v) == << v % 256, v \div 256 >>

\* a complete header with the fields read_zygo_dat uses set as given
BuiltHeader(iw, ih, ib, pw, ph, fac, wavelength, phase_res) ==
    [header_size      |-> ZYGO_HEADER_SIZE,
     ac_width         |-> iw,
     ac_height        |-> ih,
     ac_n_buckets     |-> ib,
     cn_width         |-> pw,
     cn_height        |-> ph,
     cn_n_bytes       |-> pw * ph * 4,
     scale_factor     |-> fac[1],
     wavelength       |-> wavelength,
     obliquity_factor |-> fac[2],
     phase_res        |-> phase_res]

BuiltFile(hdr, counts, codes) ==
    [hdr    |-> hdr,
     hlen   |-> ZYGO_HEADER_SIZE,
     badstr |-> {},
     data   |-> Flatten([k \in 1..Len(counts) |-> Uint16Bytes(counts[k])])
                \o Flatten([i \in 1..Len(codes) |-> Int32Bytes(codes[i])])]

\* a file with a phase block only, read with the default policy
InitPhaseFile ==
    \E wc \in { << WVL_FIELD_EXACT, CODES_EXACT >>, << WVL_FIELD_HENE, CODES_HENE >> },
       fac \in FACTORS, phase_res \in PHASE_RES :
       \E sh \in { << 1, n >> : n \in 1..MaxPhaseCells } \cup { << 2, 2 >> } :
          \E codes \in IF sh = << 2, 2 >> THEN { CODES_EXAMPLE }
                       ELSE SeqsOf(wc[2], sh[2]) :
             /\ z_case = [family |-> "phase", codes |-> codes, frames |-> << >>]
             /\ z_action = "first"
             /\ z_file = BuiltFile(BuiltHeader(0, 0, 0, sh[2], sh[1], fac, wc[1], phase_res),
                                   << >>, codes)

\* a file with intensity frames and one phase cell
InitIntensityFile ==
    \E fr \in FRAMES, ib \in 0..MaxBuckets, phase_res \in { 1, 3 }, policy \in POLICIES :
       \E counts \in SeqsOf(COUNTS, fr[1] * fr[2] * (IF ib = 0 THEN 1 ELSE ib)) :
          /\ z_case = [family |-> "intensity", codes |-> << 32768 >>, frames |-> counts]
          /\ z_action = policy
          /\ z_file = BuiltFile(BuiltHeader(fr[1], fr[2], ib, 1, 1, << Num(1), Num(1) >>,
                                            WVL_FIELD_EXACT, phase_res),
                                counts, << 32768 >>)

InitZygoRead ==
    /\ z_pc = "written"
    /\ z_phase = NoArray
    /\ z_wvl = Zero
    /\ InitPhaseFile \/ InitIntensityFile
    /\ z_out = ZygoFailed(NoError)
    /\ IdleBut("zygo")

NextZygoRead == read_zygo_dat

SpecZygoRead == InitZygoRead /\ [][NextZygoRead]_vars

(***************************************************************************)
(* Zygo header reader on buffers of any length                             *)
(***************************************************************************)
MaxExtra == 2

\* the string fields of the table
STR_FIELDS == { ZYGO_FIELDS[i].name : i \in { j \in 1..Len(ZYGO_FIELDS) : IsStrCode(ZYGO_FIELDS[j].T) } }

\* the first n bytes of a file, at most one string field of which holds
\* bytes that are not UTF-8
InitZygoMeta ==
    /\ z_pc = "contents"
    /\ z_phase = NoArray
    /\ z_wvl = Zero
    /\ z_action = ""
    /\ z_case = [family |-> "metadata", codes |-> << >>, frames |-> << >>]
    /\ \E hlen \in 0..ZYGO_HEADER_SIZE, bad \in { {} } \cup { {f} : f \in STR_FIELDS } :
          \E extra \in IF hlen = ZYGO_HEADER_SIZE THEN 0..MaxExtra ELSE { 0 } :
             z_file = [hdr    |-> NoZygoFile.hdr,
                       hlen   |-> hlen,
                       badstr |-> bad,
                       data   |-> [k \in 1..extra |-> 0]]
    /\ z_out = ZygoFailed(NoError)
    /\ IdleBut("zygo")

\* read_zygo_metadata(file_contents)
read_zygo_metadata ==
    /\ z_pc = "contents"
    /\ z_out' = ReadZygoMetadata(z_file)
    /\ z_pc' = IF z_out'.ok THEN "decoded" ELSE "failed"
    /\ UNCHANGED << z_phase, z_wvl, z_action, z_case, z_file >>
    /\ UNCHANGED not_z_vars

NextZygoMeta == read_zygo_metadata

SpecZygoMeta == InitZygoMeta /\ [][NextZygoMeta]_vars

(***************************************************************************)
(* Zygo header writer, field by field                                      *)
(***************************************************************************)
\* the largest phase.size whose phase.size*4 fits the format 'I'
MAX_CELLS_UINT32 == 1073741823

\* the largest exponent of a float32
FLOAT32_MAX_EXP == 128

NotPad(f) == ~IsPad(f)

\* defaults after `del defaults[key]` for every key that holds '__pad'
PackOrder == SelectSeq(ZYGO_FIELDS, NotPad)

\* struct.pack_into(T, buf, lo, val) for the field f of a header written for
\* a phase array of the given shape: the exception raised, NoError when
\* there is none.  The numeric defaults of the table are not carried: each
\* lies in the range of its code.  A string is cut or padded to the width
\* of its code without any exception.
PackError(f, args) ==
    LET range(code) == Error("struct.error", "format requires 0 <= number <= max",
                             Word(f.name))
    IN  CASE f.name = "cn_width" /\ args.cols > UINT16_MAX -> range("H")
          [] f.name = "cn_height" /\ args.rows > UINT16_MAX -> range("H")
          [] f.name = "cn_n_bytes" /\ args.rows > 0
                /\ args.cols > MAX_CELLS_UINT32 \div args.rows -> range("I")
          [] f.name = "wavelength"
                /\ ~BelowPow2(Div(args.wavelength, Dec(1, 6)), FLOAT32_MAX_EXP) ->
               Error("OverflowError", "float too large to pack with f format",
                     Word(f.name))
          [] f.T = "c" /\ f.dlen # 1 ->
               Error("struct.error", "char format requires a bytes object of length 1",
                     Word(f.name))
          [] OTHER -> NoError

\* the handler of the loop: print(..., len(val.encode(ZYGO_ENC))) raises
\* AttributeError for a number and for the bytes of an encoded string, and
\* that is the exception that leaves write_zygo_dat
PackRaised(e) ==
    Error("AttributeError", "object has no attribute 'encode'", e.tok)

\* the string fields whose value is longer than the width of the code
CutShort(f) == IF IsStrCode(f.T) /\ f.dlen > CalcSize(f.T) THEN {f.name} ELSE {}

\* the value of a header field: an unsigned integer as its two 16-bit
\* halves, a string of the table (spaces, or text that ends in a space) as
\* its length, the one character of a 'c' field, or a float
U32(hi, lo) == [k |-> "int", hi |-> hi, lo |-> lo, len |-> 0]

IntVal(v) == U32(v \div 65536, v % 65536)

StrVal(len) == [k |-> "str", hi |-> 0, lo |-> 0, len |-> len]

FloatVal == [k |-> "float", hi |-> 0, lo |-> 0, len |-> 0]

\* phase.size*4 from phase.size
Times4(n) == U32(n \div 16384, (n % 16384) * 4)

\* the default of a field in the table of _zygo_metadata_helper
ZygoDefault(f) ==
    IF IsStrCode(f.T) THEN StrVal(f.dlen)
    ELSE IF f.T = "c" THEN [k |-> "chr", hi |-> 0, lo |-> 0, len |-> f.dlen]
    ELSE IF f.T \in {">f", "<f"} THEN FloatVal
    ELSE CASE f.name = "magic_number" -> U32(34843, 879)
           [] f.name = "header_size" -> IntVal(ZYGO_HEADER_SIZE)
           [] f.name \in {"header_format", "swtype", "sw_llc", "phase_res",
                          "discontinuity_action", "phase_avg_count"} -> IntVal(1)
           [] f.name = "sfac_limit" -> IntVal(3)
           [] f.name = "ramp_gain" -> IntVal(1753)
           [] f.name = "min_mod" -> IntVal(17)
           [] f.name = "min_mod_count" -> IntVal(50)
           [] f.name = "min_area" -> IntVal(20)
           [] f.name = "sys_type" -> IntVal(23)
           [] f.name = "max_area" -> IntVal(9999999)
           [] OTHER -> IntVal(0)

\* the value write_zygo_dat hands to pack_into for the field f: the ones it
\* sets itself, and the default of the table for every other field
PackValue(f, args) ==
    CASE f.name = "timestamp" -> IntVal(args.ts)
      [] f.name = "cn_width" -> IntVal(args.cols)
      [] f.name = "cn_height" -> IntVal(args.rows)
      [] f.name = "cn_n_bytes" -> Times4(args.rows * args.cols)
      [] f.name = "phase_res" -> IntVal(1)
      [] OTHER -> ZygoDefault(f)

\* the bytes pack_into leaves in the buffer: the code 's' keeps as many
\* bytes of the value as the field is wide and pads with NUL
PackBytes(f, val) ==
    IF val.k = "str" THEN [val EXCEPT !.len = Min(@, CalcSize(f.T))] ELSE val

\* struct.unpack(T, file_contents[lo:hi])[0] and, for a code with 's',
\* .decode(ZYGO_ENC).rstrip('\x00'): the NUL padding goes, a 'c' field is
\* left as bytes
UnpackValue(f, stored) == IF f.T = "c" THEN [stored EXCEPT !.k = "bytes"] ELSE stored

\* math.floor(timestamp.timestamp()) of the call
TIMESTAMPS == {1793491200}

PACK_SHAPES ==
    { << 1, 1 >>, << 1, UINT16_MAX >>, << 1, UINT16_MAX + 1 >>, << UINT16_MAX + 1, 1 >>,
      << 32768, 32767 >>, << 32768, 32768 >> }

\* 0.6328 um, and 2^150 um
PACK_WAVELENGTHS == { Dec(6328, -4), Mk(1, 1, 150, 0) }

\* write_zygo_dat(file, phase, dx, wavelength) up to the loop over defaults;
\* the locals kept are i, the position in defaults, and cut, the string
\* fields packed so far whose value was longer than the field
InitZygoPack ==
    /\ c_fn = "write_zygo_dat"
    /\ c_pc = "packing"
    /\ \E sh \in PACK_SHAPES, wavelength \in PACK_WAVELENGTHS, ts \in TIMESTAMPS :
          c_args = [rows |-> sh[1], cols |-> sh[2], wavelength |-> wavelength,
                    ts |-> ts]
    /\ c_locals = [i |-> 1, cut |-> {}, buf |-> << >>, nbytes |-> Zero,
                   meta |-> << >>]
    /\ c_out = NoError
    /\ IdleBut("call")

\* one pass of `for k, (T, lo, hi, val) in defaults.items()`
pack_into ==
    /\ c_fn = "write_zygo_dat"
    /\ c_pc = "packing"
    /\ LET f == PackOrder[c_locals.i]
           e == PackError(f, c_args)
       IN  IF e.type # ""
           THEN /\ c_pc' = "failed"
                /\ c_out' = PackRaised(e)
                /\ UNCHANGED c_locals
           ELSE /\ c_pc' = IF c_locals.i = Len(PackOrder) THEN "packed" ELSE "packing"
                /\ c_locals' = [c_locals EXCEPT
                                   !.i   = @ + 1,
                                   !.cut = @ \cup CutShort(f),
                                   !.buf = Append(@, PackBytes(f, PackValue(f, c_args)))]
                /\ UNCHANGED c_out
    /\ UNCHANGED << c_fn, c_args >>
    /\ UNCHANGED not_c_vars

\* with open(file, 'wb') as fid: fid.write(buf); fid.write(bufphs): the
\* 834 bytes of the buffer and four bytes for every cell of phase
write_header_and_phase ==
    /\ c_fn = "write_zygo_dat"
    /\ c_pc = "packed"
    /\ c_pc' = "written"
    /\ c_locals' = [c_locals EXCEPT
                       !.nbytes = Add(Num(ZYGO_HEADER_SIZE),
                                      Mul(Num(4), Num(c_args.rows * c_args.cols)))]
    /\ UNCHANGED << c_fn, c_args, c_out >>
    /\ UNCHANGED not_c_vars

\* read_zygo_metadata on the contents of the file written: the value of
\* every field that is not padding, in the order of the table
read_back ==
    /\ c_fn = "write_zygo_dat"
    /\ c_pc = "written"
    /\ c_pc' = "decoded"
    /\ c_locals' = [c_locals EXCEPT
                       !.meta = [i \in 1..Len(PackOrder) |->
                                    UnpackValue(PackOrder[i], c_locals.buf[i])]]
    /\ UNCHANGED << c_fn, c_args, c_out >>
    /\ UNCHANGED not_c_vars

NextZygoPack == pack_into \/ write_header_and_phase \/ read_back

SpecZygoPack == InitZygoPack /\ [][NextZygoPack]_vars

(***************************************************************************)
(* The header table, entry by entry                                        *)
(***************************************************************************)
\* _zygo_metadata_helper() evaluates its dict display one entry at a time;
\* the locals kept here are n, the number of entries built, seen, the byte
\* offsets inside the range of some entry built, and twice, the offsets
\* inside the ranges of two of them
InitZygoTable ==
    /\ c_fn = "_zygo_metadata_helper"
    /\ c_pc = "building"
    /\ c_args = << >>
    /\ c_locals = [n |-> 0, seen |-> {}, twice |-> {}]
    /\ c_out = NoError
    /\ IdleBut("call")

\* the next 'key': (T, lo, hi, default) of the display
add_entry ==
    /\ c_fn = "_zygo_metadata_helper"
    /\ c_pc = "building"
    /\ LET f == ZYGO_FIELDS[c_locals.n + 1]
       IN  c_locals' = [n     |-> c_locals.n + 1,
                        seen  |-> c_locals.seen \cup FieldRange(f),
                        twice |-> c_locals.twice \cup (c_locals.seen \cap FieldRange(f))]
    /\ c_pc' = IF c_locals'.n = Len(ZYGO_FIELDS) THEN "returned" ELSE "building"
    /\ UNCHANGED << c_fn, c_args, c_out >>
    /\ UNCHANGED not_c_vars

NextZygoTable == add_entry

SpecZygoTable == InitZygoTable /\ [][NextZygoTable]_vars

(***************************************************************************)
(* Trioptics MTF-Lab v5 report reader                                      *)
(***************************************************************************)
\* The text of a report is kept line by line, and every position in it is
\* counted in lines: a comment marker is a line of its own, so the 29 and 31
\* characters of the begin markers are one line here.  The other lines are
\* markup noise ('<table>'), rows of the table of image heights
\* ('<td ...>0.5</td>') and rows of the measurement table
\* ('<tr ...><td ...>Tan 10(lp/mm)</td><td>0.1</td>...<td>...</td></tr>').
MaxRows == 2

\* body.splitlines()[8:-2]
CAPTION_HEAD == 8

CAPTION_TAIL == 2

MARK_CLOSE == "<!-- close certificate table -->"

MARK_BEGIN_CAPTION == "<!--  begin table caption -->"

MARK_END_CAPTION == "<!-- end table caption -->"

MARK_BEGIN_DATA == "<!-- begin measurement data -->"

MARK_END_DATA == "<!-- end measurement data -->"

MHT_MARKERS ==
    { MARK_CLOSE, MARK_BEGIN_CAPTION, MARK_END_CAPTION, MARK_BEGIN_DATA, MARK_END_DATA }

Marker(m) == [k |-> "marker", m |-> m]

Noise == [k |-> "noise"]

HeightRow(v) == [k |-> "height", v |-> v]

DataRow(az, freq, v) == [k |-> "row", az |-> az, freq |-> freq, vals |-> v]

\* the text before '(lp/mm)' in the first cell of a row
FREQ_TEXTS == {"10", "10.0", "20"}

\* float(freq.split('(')[0])
ParseFreq(text) == IF text = "20" THEN 20 ELSE 10

\* the list a row whose azimuth is not 'Tan' goes to
TargetNotTan(az) == IF az = "Tan" THEN "tan" ELSE "sag"

\* if az == 'Sag': target = sag, else: target = tan
Target(az) == IF az = "Sag" THEN "sag" ELSE "tan"

\* str.find(sub): the position of the first occurrence, from 0, or -1
Find(text, m) ==
    LET at == { i \in 1..Len(text) : text[i] = Marker(m) }
    IN  IF at = {} THEN -1 ELSE (CHOOSE i \in at : \A j \in at : i <= j) - 1

\* a slice bound as Python reads it in a sequence of n items
PyIndex(n, i) ==
    IF i < 0 THEN (IF n + i < 0 THEN 0 ELSE n + i) ELSE (IF i > n THEN n ELSE i)

\* seq[a:b]
PySlice(seq, a, b) ==
    LET lo == PyIndex(Len(seq), a)
        hi == PyIndex(Len(seq), b)
    IN  IF lo < hi THEN SubSeq(seq, lo + 1, hi) ELSE << >>

\* file_contents[start+29:end].splitlines(): the rest of the line the slice
\* starts in, then the lines up to the end position; nothing when the slice
\* is empty
CaptionLines(text, start, end) ==
    IF PyIndex(Len(text), start + 1) <= PyIndex(Len(text), end)
    THEN << Noise >> \o PySlice(text, start + 1, end)
    ELSE << >>

MhtFailed(err) ==
    [ok |-> FALSE, err |-> err, tan |-> << >>, sag |-> << >>, field |-> << >>, freq |-> << >>]

\* float(row.split('>', 1)[1].split('<')[0]) fails on every line but a row
\* of the table of image heights: the text after the first '>' of a marker,
\* of a noise line or of a measurement row is empty
IsHeight(line) == line.k = "height"

IsRow(line) == line.k = "row"

\* the loop over body: the heights, or the ValueError of the first line
\* that is no height
ImageHeights(body) ==
    IF \E i \in 1..Len(body) : ~IsHeight(body[i])
    THEN [ok |-> FALSE,
          err |-> Error("ValueError", "could not convert string to float", Word("")),
          heights |-> << >>]
    ELSE [ok |-> TRUE, err |-> NoError, heights |-> [i \in 1..Len(body) |-> body[i].v]]

\* `for row in rows:` from the i-th row on: target.append(tmp), and
\* freqs.append(freq) if freq not in freqs
RECURSIVE RowsLoop(_, _, _)
RowsLoop(rows, i, acc) ==
    IF i > Len(rows) THEN acc
    ELSE LET row  == rows[i]
             freq == ParseFreq(row.freq)
             seen == \E j \in 1..Len(acc.freq) : acc.freq[j] = freq
         IN  RowsLoop(rows, i + 1,
                      [acc EXCEPT
                          !.tan  = IF Target(row.az) = "tan" THEN Append(@, row.vals) ELSE @,
                          !.sag  = IF Target(row.az) = "sag" THEN Append(@, row.vals) ELSE @,
                          !.freq = IF seen THEN @ ELSE Append(@, freq)])

\* file_contents.split('<tr ')[1:] and the loop over rows: what precedes the
\* first row is dropped; a marker or noise line after a row has no '<td' and
\* ends up in the last cell of the row, which is dropped; a height line after
\* a row adds a cell, so that the last cell of the row is read as a number
MeasurementRows(region) ==
    LET rows == SelectSeq(region, IsRow)
    IN  IF \E i, j \in 1..Len(region) : i < j /\ IsRow(region[i]) /\ IsHeight(region[j])
        THEN MhtFailed(Error("ValueError", "could not convert string to float", Word("")))
        ELSE RowsLoop(rows, 1, [ok |-> TRUE, err |-> NoError, tan |-> << >>,
                                sag |-> << >>, field |-> << >>, freq |-> << >>])

\* a report with `pre` lines before the first table, h image heights and r
\* measurement rows of h values each, the markers in `drop` left out
Report(pre, h, r, drop) ==
    LET all == [i \in 1..pre |-> Noise]
               \o << Marker(MARK_BEGIN_CAPTION) >>
               \o [i \in 1..(CAPTION_HEAD - 1) |-> Noise]
               \o [i \in 1..h |-> HeightRow(i)]
               \o [i \in 1..CAPTION_TAIL |-> Noise]
               \o << Marker(MARK_END_CAPTION), Noise, Marker(MARK_BEGIN_DATA) >>
               \o [i \in 1..r |-> DataRow(IF i % 2 = 1 THEN "Tan" ELSE "Sag", "10",
                                          [j \in 1..h |-> 10 * i + j])]
               \o << Marker(MARK_END_DATA), Noise, Marker(MARK_CLOSE), Noise >>
        Kept(line) == line.k # "marker" \/ line.m \notin drop
    IN  SelectSeq(all, Kept)

InitMht ==
    /\ c_fn = "read_trioptics_mtf_vs_field_mtflab_v5"
    /\ c_pc = "certificate"
    /\ \E pre \in 1..2, h \in 0..MaxRows, r \in 0..MaxRows,
          drop \in { d \in SUBSET MHT_MARKERS : Cardinality(d) <= 2 } :
          /\ c_args = [file_contents |-> Report(pre, h, r, drop), metadata |-> FALSE]
          /\ c_locals = [file_contents |-> Report(pre, h, r, drop), image_heights |-> << >>]
    /\ c_out = MhtFailed(NoError)
    /\ IdleBut("call")

\* end = file_contents.find('<!-- close certificate table -->');
\* file_contents = file_contents[:end]
cut_certificate ==
    /\ c_fn = "read_trioptics_mtf_vs_field_mtflab_v5"
    /\ c_pc = "certificate"
    /\ LET end == Find(c_locals.file_contents, MARK_CLOSE)
       IN  c_locals' = [c_locals EXCEPT !.file_contents = PySlice(@, 0, end)]
    /\ c_pc' = "caption"
    /\ UNCHANGED << c_fn, c_args, c_out >>
    /\ UNCHANGED not_c_vars

\* the first table: the image heights, then file_contents = file_contents[end:]
read_caption ==
    /\ c_fn = "read_trioptics_mtf_vs_field_mtflab_v5"
    /\ c_pc = "caption"
    /\ LET text  == c_locals.file_contents
           start == Find(text, MARK_BEGIN_CAPTION)
           end   == Find(text, MARK_END_CAPTION)
           body  == PySlice(CaptionLines(text, start, end), CAPTION_HEAD, -CAPTION_TAIL)
           got   == ImageHeights(body)
       IN  IF got.ok
           THEN /\ c_pc' = "data"
                /\ c_locals' = [file_contents |-> PySlice(text, end, Len(text)),
                                image_heights |-> got.heights]
                /\ UNCHANGED c_out
           ELSE /\ c_pc' = "failed"
                /\ c_out' = MhtFailed(got.err)
                /\ UNCHANGED c_locals
    /\ UNCHANGED << c_fn, c_args >>
    /\ UNCHANGED not_c_vars

\* the second table, and the dict returned
read_measurement ==
    /\ c_fn = "read_trioptics_mtf_vs_field_mtflab_v5"
    /\ c_pc = "data"
    /\ LET text  == c_locals.file_contents
           start == Find(text, MARK_BEGIN_DATA)
           end   == Find(text, MARK_END_DATA)
           got   == MeasurementRows(PySlice(text, start + 1, end))
       IN  /\ c_pc' = IF got.ok THEN "returned" ELSE "failed"
           /\ c_out' = [got EXCEPT !.field = IF got.ok THEN c_locals.image_heights ELSE << >>]
    /\ UNCHANGED << c_fn, c_args, c_locals >>
    /\ UNCHANGED not_c_vars

NextMht == cut_certificate \/ read_caption \/ read_measurement

SpecMht == InitMht /\ [][NextMht]_vars

\* rows of a measurement table
MaxMhtRows == 3

AZIMUTHS == {"Tan", "Sag", "tan"}

\* a whole report with one image height and the given measurement rows
ReportOf(rows) ==
    << Noise, Marker(MARK_BEGIN_CAPTION) >>
        \o [i \in 1..(CAPTION_HEAD - 1) |-> Noise]
        \o << HeightRow(1) >>
        \o [i \in 1..CAPTION_TAIL |-> Noise]
        \o << Marker(MARK_END_CAPTION), Noise, Marker(MARK_BEGIN_DATA) >>
        \o rows
        \o << Marker(MARK_END_DATA), Noise, Marker(MARK_CLOSE), Noise >>

\* reports whose measurement table has 0..MaxMhtRows rows of any azimuth
\* and frequency; the i-th row holds the value i
InitMhtRows ==
    /\ c_fn = "read_trioptics_mtf_vs_field_mtflab_v5"
    /\ c_pc = "certificate"
    /\ \E n \in 0..MaxMhtRows :
       \E az \in SeqsOf(AZIMUTHS, n), freq \in SeqsOf(FREQ_TEXTS, n) :
          LET rows == [i \in 1..n |-> DataRow(az[i], freq[i], << i >>)]
          IN  /\ c_args = [file_contents |-> ReportOf(rows), metadata |-> FALSE]
              /\ c_locals = [file_contents |-> ReportOf(rows), image_heights |-> << >>]
    /\ c_out = MhtFailed(NoError)
    /\ IdleBut("call")

SpecMhtRows == InitMhtRows /\ [][NextMht]_vars

(***************************************************************************)
(* Trioptics MTF-Lab v4 report reader.  The text is a sequence of pieces:  *)
(* the block 'MTF=09 ... Legend=09' of image heights, blocks               *)
(* 'Tan ... =97' and 'Sag ... =97' of one frequency each, and other text.  *)
(***************************************************************************)
\* matches of one pattern in a report
MaxMatches == 4

FieldsBlock == [k |-> "fields", freq |-> 0, vals |-> << 1 >>]

\* the i-th block of an azimuth: ' <10*i>(lp/mm)=09<value>=09'
MtfBlock(az, i) ==
    [k |-> az, freq |-> 10 * i, vals |-> << (IF az = "Tan" THEN 100 ELSE 200) + i >>]

OtherText == [k |-> "noise", freq |-> 0, vals |-> << >>]

\* a report with nt 'Tan' blocks, ns 'Sag' blocks and enough text after
\* them for `tenths` tenths of it to hold the blocks: tenths = 0 leaves
\* nothing in the tenth that is searched
V4Report(nt, ns, tenths) ==
    LET head == << FieldsBlock >> \o [i \in 1..nt |-> MtfBlock("Tan", i)]
                    \o [i \in 1..ns |-> MtfBlock("Sag", i)]
        n    == IF tenths = 0 THEN Len(head) \div 2 ELSE 9 * Len(head)
    IN  head \o [i \in 1..n |-> OtherText]

\* pattern.findall(data) for the pattern of the blocks of kind k
FindAll(data, k) ==
    LET IsKind(piece) == piece.k = k
    IN  SelectSeq(data, IsKind)

\* endpt = len(tan) // 2; sag[:endpt]
HalfOfSag(tan, sag) == PySlice(sag, 0, Len(tan) \div 2)

InitV4 ==
    /\ c_fn = "read_trioptics_mtf_vs_field_mtflab_v4"
    /\ c_pc = "tenth"
    /\ \E nt \in 0..MaxMatches, ns \in 0..MaxMatches, tenths \in 0..1 :
          c_args = [data |-> V4Report(nt, ns, tenths), metadata |-> FALSE]
    /\ c_locals = [data |-> << >>, fields |-> << >>, tan |-> << >>, sag |-> << >>]
    /\ c_out = MhtFailed(NoError)
    /\ IdleBut("call")

\* data = data[:len(data)//10]
take_tenth ==
    /\ c_fn = "read_trioptics_mtf_vs_field_mtflab_v4"
    /\ c_pc = "tenth"
    /\ c_pc' = "fields"
    /\ c_locals' = [c_locals EXCEPT
                       !.data = PySlice(c_args.data, 0, Len(c_args.data) \div 10)]
    /\ UNCHANGED << c_fn, c_args, c_out >>
    /\ UNCHANGED not_c_vars

\* fields = fields_pattern.findall(data)[0]
find_fields ==
    /\ c_fn = "read_trioptics_mtf_vs_field_mtflab_v4"
    /\ c_pc = "fields"
    /\ LET found == FindAll(c_locals.data, "fields")
       IN  IF found = << >>
           THEN /\ c_pc' = "failed"
                /\ c_out' = MhtFailed(Error("IndexError", "list index out of range",
                                            Word("")))
                /\ UNCHANGED c_locals
           ELSE /\ c_pc' = "tables"
                /\ c_locals' = [c_locals EXCEPT !.fields = found[1].vals]
                /\ UNCHANGED c_out
    /\ UNCHANGED << c_fn, c_args >>
    /\ UNCHANGED not_c_vars

\* tan, sag = tan_pattern.findall(data), sag_pattern.findall(data);
\* endpt = len(tan) // 2; tan, sag = tan[:endpt], sag[:endpt]
find_tables ==
    /\ c_fn = "read_trioptics_mtf_vs_field_mtflab_v4"
    /\ c_pc = "tables"
    /\ c_pc' = "arrays"
    /\ LET tan == FindAll(c_locals.data, "Tan")
           sag == FindAll(c_locals.data, "Sag")
       IN  c_locals' = [c_locals EXCEPT
                           !.tan = PySlice(tan, 0, Len(tan) \div 2),
                           !.sag = HalfOfSag(tan, sag)]
    /\ UNCHANGED << c_fn, c_args, c_out >>
    /\ UNCHANGED not_c_vars

\* freqs from the tan matches, the arrays, and the dict returned
build_result ==
    /\ c_fn = "read_trioptics_mtf_vs_field_mtflab_v4"
    /\ c_pc = "arrays"
    /\ c_pc' = "returned"
    /\ c_out' = [ok    |-> TRUE,
                 err   |-> NoError,
                 tan   |-> [i \in 1..Len(c_locals.tan) |-> c_locals.tan[i].vals],
                 sag   |-> [i \in 1..Len(c_locals.sag) |-> c_locals.sag[i].vals],
                 field |-> c_locals.fields,
                 freq  |-> [i \in 1..Len(c_locals.tan) |-> c_locals.tan[i].freq]]
    /\ UNCHANGED << c_fn, c_args, c_locals >>
    /\ UNCHANGED not_c_vars

NextV4 == take_tenth \/ find_fields \/ find_tables \/ build_result

SpecV4 == InitV4 /\ [][NextV4]_vars

(***************************************************************************)
(* Code V PSF and BSP readers: the scan over the lines of the header       *)
(***************************************************************************)
MaxLines == 6

\* lines after the heading of a file read for its unit token
MaxUnitLines == 4

\* total_lines_skipped is unbounded in the code; a run whose counter has
\* reached MaxSkipped is a run that is still reading
MaxSkipped == 8

\* the lines of a file, each but a blank one without its '\n'; a label line
\* is well formed: 'Grid spacing:' has its values and a unit token,
\* 'Array Size:' declares a 1 x 1 array, "1.0" is a row of one number
CODEV_LINES ==
    { "\n", "PSF data:", "BSP data:", "Offset of grid center", "Grid spacing:",
      "Array Size:", "1.0" }

\* the lines a file given to fn is made of: the heading of the other reader
\* is to fn a line like any other
LinesOf(fn) ==
    CODEV_LINES \ (IF fn = "read_codev_psf"
                   THEN {"BSP data:", "Offset of grid center"}
                   ELSE {"PSF data:"})

\* tmp[2].strip() of the 'Grid spacing:' line
CODEV_UNITS == {"MM.", "IN.", "mm", "in", "CM."}

\* float(tmp[1]), and float(tmp[3]) = twice it, of the 'Grid spacing:' line
SPACINGS == {Frac(1, 2), Num(3)}

MmToken(fn) == IF fn = "read_codev_psf" THEN "MM." ELSE "mm"

InchToken(fn) == IF fn = "read_codev_psf" THEN "IN." ELSE "in"

\* in_to_mm = 25.4
IN_TO_MM == Dec(254, -1)

\* v*1e3 without the conversion of inches
ToMicronsAsMm(fn, v, unit) == Mul(v, Num(1000))

\* if unit != mm: v *= in_to_mm; then v*1e3, mm -> um
ToMicrons(fn, v, unit) ==
    Mul(IF unit # MmToken(fn) THEN Mul(v, IN_TO_MM) ELSE v, Num(1000))

\* the spacing the reader computes: dx of read_codev_psf, (dx, dy) of
\* read_codev_bsp
GridSpacing(fn, v, unit) ==
    IF fn = "read_codev_psf" THEN << ToMicrons(fn, v, unit) >>
    ELSE << ToMicrons(fn, v, unit), ToMicrons(fn, Mul(v, Num(2)), unit) >>

\* a with block that closes its file when the block ends normally only
WithExitOnSuccess(open, raised) == IF raised THEN open ELSE FALSE

\* the end of `with open(...) as f:`, by its last statement or by an
\* exception raised in the block: f is closed
WithExit(open, raised) == FALSE

\* total_lines_skipped += 1 for lines that are not empty only
CountedNonBlank(total, line) == IF line = "\n" THEN total ELSE total + 1

\* total_lines_skipped += 1 after f.readline() returned line
Counted(total, line) == total + 1

\* f.readline() after pos lines were read: '' at the end of the file
ReadLine(lines, pos) == IF pos < Len(lines) THEN lines[pos + 1] ELSE ""

\* the first line of the file that the reader asserts
Heading(fn) == IF fn = "read_codev_psf" THEN "PSF data:" ELSE "BSP data:"

\* the label the scan at pc looks for
Label(pc) ==
    CASE pc = "offset" -> "Offset of grid center"
      [] pc = "spacing" -> "Grid spacing:"
      [] pc = "size" -> "Array Size:"

\* the scan that follows the one at pc
AfterLabel(pc) ==
    CASE pc = "offset" -> "spacing"
      [] pc = "spacing" -> "size"
      [] pc = "size" -> "load"

CodevFns == {"read_codev_psf", "read_codev_bsp"}

InitCodev ==
    /\ c_fn \in CodevFns
    /\ c_pc = "top"
    /\ \E n \in 0..MaxLines : \E lines \in SeqsOf(LinesOf(c_fn), n) :
          c_args = [lines |-> lines, unit |-> MmToken(c_fn), v |-> Frac(1, 2)]
    /\ c_locals = [pos |-> 0, line |-> "\n", total_lines_skipped |-> 0,
                   spacing |-> << >>, open |-> TRUE]
    /\ c_out = NoError
    /\ IdleBut("call")

\* files that begin with the heading of the reader, with every unit token
InitCodevUnits ==
    /\ c_fn \in CodevFns
    /\ c_pc = "top"
    /\ \E n \in 0..MaxUnitLines : \E lines \in SeqsOf(LinesOf(c_fn), n) :
       \E unit \in CODEV_UNITS : \E v \in SPACINGS :
          c_args = [lines |-> << Heading(c_fn) >> \o lines, unit |-> unit, v |-> v]
    /\ c_locals = [pos |-> 0, line |-> "\n", total_lines_skipped |-> 0,
                   spacing |-> << >>, open |-> TRUE]
    /\ c_out = NoError
    /\ IdleBut("call")

\* one pass of `while line == '\n'`, and the assert that follows the loop
skip_blank ==
    /\ c_fn \in CodevFns
    /\ c_pc = "top"
    /\ c_locals.total_lines_skipped < MaxSkipped
    /\ LET line == ReadLine(c_args.lines, c_locals.pos)
       IN  /\ c_locals' = [c_locals EXCEPT
                              !.pos  = Min(c_locals.pos + 1, Len(c_args.lines)),
                              !.line = line,
                              !.total_lines_skipped = Counted(@, line),
                              !.open = IF line \in {"\n", Heading(c_fn)} THEN @
                                       ELSE WithExit(@, TRUE)]
           /\ IF line = "\n" THEN c_pc' = "top" /\ UNCHANGED c_out
              ELSE IF line = Heading(c_fn)
              THEN /\ c_pc' = IF c_fn = "read_codev_psf" THEN "spacing" ELSE "offset"
                   /\ UNCHANGED c_out
              ELSE /\ c_pc' = "failed"
                   /\ c_out' = Error("AssertionError", "dat file must begin with a line",
                                     Word(Heading(c_fn)))
    /\ UNCHANGED << c_fn, c_args >>
    /\ UNCHANGED not_c_vars

\* one pass of `while not line.startswith(label)`:
\* line = f.readline().lstrip(); total_lines_skipped += 1, and when the
\* label is found the statements between this loop and the next one
scan_label ==
    /\ c_fn \in CodevFns
    /\ c_pc \in {"offset", "spacing", "size"}
    /\ c_locals.total_lines_skipped < MaxSkipped
    /\ LET line  == ReadLine(c_args.lines, c_locals.pos)
           found == line = Label(c_pc)
           unit  == c_args.unit
           bad   == found /\ c_pc = "spacing"
                          /\ unit # MmToken(c_fn) /\ unit # InchToken(c_fn)
       IN  /\ c_locals' = [c_locals EXCEPT
                              !.pos  = Min(c_locals.pos + 1, Len(c_args.lines)),
                              !.line = IF line = "\n" THEN "" ELSE line,
                              !.total_lines_skipped = Counted(@, line),
                              !.spacing = IF found /\ c_pc = "spacing" /\ ~bad
                                          THEN GridSpacing(c_fn, c_args.v, unit)
                                          ELSE @,
                              !.open = IF bad THEN WithExit(@, TRUE)
                                       ELSE IF found /\ c_pc = "size"
                                       THEN WithExit(@, FALSE)
                                       ELSE @]
           /\ c_pc' = IF bad THEN "failed"
                      ELSE IF found THEN AfterLabel(c_pc) ELSE c_pc
           /\ c_out' = IF bad
                       THEN Error("ValueError", "expected unit to be other mm or in",
                                  Word(unit))
                       ELSE c_out
    /\ UNCHANGED << c_fn, c_args >>
    /\ UNCHANGED not_c_vars

\* arr = np.genfromtxt(fn, skip_header=total_lines_skipped, delimiter=sep);
\* assert arr.shape == the size declared
load_array ==
    /\ c_fn \in CodevFns
    /\ c_pc = "load"
    /\ LET rest == PySlice(c_args.lines, c_locals.total_lines_skipped, Len(c_args.lines))
       IN  IF rest = << "1.0" >>
           THEN c_pc' = "returned" /\ UNCHANGED c_out
           ELSE /\ c_pc' = "failed"
                /\ c_out' = Error("AssertionError", "array size must match header", Word(""))
    /\ UNCHANGED << c_fn, c_args, c_locals >>
    /\ UNCHANGED not_c_vars

NextCodev == skip_blank \/ scan_label \/ load_array

(***************************************************************************)
(* The file handle of a call: read_zygo_dat, write_zygo_dat,               *)
(* read_sigfit_zernikes and read_sigfit_rigidbody move the whole file in   *)
(* one statement inside the with block; read_codev_psf and read_codev_bsp  *)
(* scan the header inside it.  np.genfromtxt opens the file by its name    *)
(* and keeps its handle to itself.                                         *)
(***************************************************************************)
HandleFns ==
    CodevFns \cup {"read_zygo_dat", "write_zygo_dat", "read_sigfit_zernikes",
                   "read_sigfit_rigidbody"}

\* the statement inside the with block
WithBody(fn) ==
    CASE fn = "read_zygo_dat" -> "fid.read()"
      [] fn = "write_zygo_dat" -> "fid.write(buf)"
      [] fn = "read_sigfit_zernikes" -> "fid.read()"
      [] fn = "read_sigfit_rigidbody" -> "fid.readlines()"

NoLocals ==
    [pos |-> 0, line |-> "\n", total_lines_skipped |-> 0, spacing |-> << >>,
     open |-> FALSE]

\* a call on a path that cannot be opened; a call of a Code V reader on a
\* file; a call of another function whose with block and whose parsing
\* (for write_zygo_dat: packing, before the file is opened) succeed or not
InitHandles ==
    /\ c_fn \in HandleFns
    /\ c_pc = IF c_fn = "write_zygo_dat" THEN "pack" ELSE "open"
    /\ \/ c_args = [lines |-> << >>, unit |-> "", v |-> Zero, exists |-> FALSE,
                    readable |-> FALSE, parses |-> FALSE]
       \/ /\ c_fn \in CodevFns
          /\ \E n \in 0..MaxUnitLines : \E lines \in SeqsOf(LinesOf(c_fn), n) :
             \E unit \in CODEV_UNITS :
                c_args = [lines |-> lines, unit |-> unit, v |-> Frac(1, 2),
                          exists |-> TRUE, readable |-> TRUE, parses |-> TRUE]
       \/ /\ c_fn \notin CodevFns
          /\ \E readable \in BOOLEAN, parses \in BOOLEAN :
                c_args = [lines |-> << >>, unit |-> "", v |-> Zero, exists |-> TRUE,
                          readable |-> readable, parses |-> parses]
    /\ c_locals = NoLocals
    /\ c_out = NoError
    /\ IdleBut("call")

\* write_zygo_dat before its with block: the header and the codes
pack_first ==
    /\ c_fn = "write_zygo_dat"
    /\ c_pc = "pack"
    /\ IF c_args.parses THEN c_pc' = "open" /\ UNCHANGED c_out
       ELSE /\ c_pc' = "failed"
            /\ c_out' = Error("AttributeError", "pack_into", Word(""))
    /\ UNCHANGED << c_fn, c_args, c_locals >>
    /\ UNCHANGED not_c_vars

\* `with open(file, mode) as fid:` up to the first statement of the block
open_file ==
    /\ c_fn \in HandleFns
    /\ c_pc = "open"
    /\ IF c_args.exists
       THEN /\ c_pc' = IF c_fn \in CodevFns THEN "top" ELSE "with"
            /\ c_locals' = [c_locals EXCEPT !.open = TRUE]
            /\ UNCHANGED c_out
       ELSE /\ c_pc' = "failed"
            /\ c_out' = Error("OSError", "open", Word(""))
            /\ UNCHANGED c_locals
    /\ UNCHANGED << c_fn, c_args >>
    /\ UNCHANGED not_c_vars

\* the statement inside the with block, and the end of the block
with_body ==
    /\ c_fn \in HandleFns \ CodevFns
    /\ c_pc = "with"
    /\ c_locals' = [c_locals EXCEPT !.open = WithExit(@, ~c_args.readable)]
    /\ IF c_args.readable
       THEN /\ c_pc' = IF c_fn = "write_zygo_dat" THEN "returned" ELSE "after"
            /\ UNCHANGED c_out
       ELSE /\ c_pc' = "failed"
            /\ c_out' = Error("OSError", WithBody(c_fn), Word(""))
    /\ UNCHANGED << c_fn, c_args >>
    /\ UNCHANGED not_c_vars

\* the statements of a reader after its with block
after_with ==
    /\ c_fn \in HandleFns \ CodevFns
    /\ c_pc = "after"
    /\ IF c_args.parses THEN c_pc' = "returned" /\ UNCHANGED c_out
       ELSE /\ c_pc' = "failed"
            /\ c_out' = Error("ValueError", "parse", Word(""))
    /\ UNCHANGED << c_fn, c_args, c_locals >>
    /\ UNCHANGED not_c_vars

NextHandles ==
    pack_first \/ open_file \/ with_body \/ after_with \/ skip_blank
        \/ scan_label \/ load_array

SpecHandles == InitHandles /\ [][NextHandles]_vars

SpecCodev == InitCodev /\ [][NextCodev]_vars

SpecCodevUnits == InitCodevUnits /\ [][NextCodev]_vars

(***************************************************************************)
(* Trioptics dispatch: read_any_trioptics_mht                              *)
(***************************************************************************)
\* data[750:1500]
WINDOW_LO == 750

WINDOW_HI == 1500

\* len('Measure Program  : ')
PROGRAM_TAG_LEN == 19

\* A report is kept as: program, the text after 'Measure Program  : ' on its
\* line ("none" when the report has no such line); at, the position of that
\* line in the text; tables, whether the text holds the 'MTF=09 ... Legend=09'
\* table the v4 reader looks for.
LabelLen(label) ==
    CASE label = "MTF vs. Field" -> 13
      [] label = "Distortion" -> 10
      [] label = "Axial Color" -> 11
      [] label = "Lateral Color" -> 13
      [] label = "Through Focus" -> 13
      [] label = "" -> 0

PROGRAMS ==
    { "MTF vs. Field", "Distortion", "Axial Color", "Lateral Color", "Through Focus", "" }

POSITIONS == { 0, WINDOW_LO - 1, WINDOW_LO, 1000, 1468, 1481, 1482 }

\* identify_trioptics_measurement_type: the regular expression is searched
\* in data[750:1500] only, so the tag must lie in it, and (.*) stops at the
\* end of the window.  What is identified is kept as [text, whole]: whole is
\* FALSE for a program cut short by the window, which is a proper prefix of
\* text and so equal to no key of the switchboard
IdentifyType(doc) ==
    LET room == WINDOW_HI - (doc.at + PROGRAM_TAG_LEN)
    IN  IF doc.program = "none" \/ doc.at < WINDOW_LO \/ room < 0
        THEN [ok |-> FALSE, program |-> [text |-> "", whole |-> TRUE],
              err |-> Error("AttributeError", "'NoneType' object has no attribute 'group'",
                            Word(""))]
        ELSE [ok |-> TRUE,
              program |-> [text |-> doc.program, whole |-> LabelLen(doc.program) <= room],
              err |-> NoError]

\* dict.get(type_, NotImplemented): no KeyError for a key that is missing
SwitchboardGet(type_) ==
    IF type_.whole /\ type_.text = "MTF vs. Field" THEN "read_trioptics_mtf_vs_field" ELSE "NotImplemented"

\* TRIOPTICS_SWITCHBOARD[type_]
TRIOPTICS_SWITCHBOARD(type_) ==
    CASE type_.whole /\ type_.text = "MTF vs. Field" -> "read_trioptics_mtf_vs_field"
      [] type_.whole /\ type_.text \in {"Distortion", "Axial Color", "Lateral Color"} ->
           "NotImplemented"
      [] OTHER -> "KeyError"

\* read_trioptics_mtf_vs_field(data, metadata=metadata), which runs the v4
\* reader: fields_pattern.findall(data)[0] raises IndexError when the text
\* has no table; otherwise the dict of freq, field, tan, sag is returned,
\* with the metadata keys when metadata is True
MtfVsField(doc, metadata) ==
    IF doc.tables
    THEN [ok |-> TRUE, err |-> NoError, type_ |-> "MTF vs. Field",
          record |-> IF metadata THEN {"freq", "field", "tan", "sag", "metadata"}
                     ELSE {"freq", "field", "tan", "sag"}]
    ELSE [ok |-> FALSE, err |-> Error("IndexError", "list index out of range", Word("")),
          type_ |-> "", record |-> {}]

MhtRaised(err) == [ok |-> FALSE, err |-> err, type_ |-> "", record |-> {}]

InitDispatch ==
    /\ c_fn = "read_any_trioptics_mht"
    /\ c_pc = "identify"
    /\ \E program \in PROGRAMS \cup {"none"}, at \in POSITIONS, tables \in BOOLEAN,
          metadata \in BOOLEAN :
          c_args = [file |-> [program |-> program, at |-> at, tables |-> tables],
                    metadata |-> metadata]
    /\ c_locals = [type_ |-> [text |-> "", whole |-> TRUE]]
    /\ c_out = MhtRaised(NoError)
    /\ IdleBut("call")

\* type_, data = identify_trioptics_measurement_type(file)
identify_trioptics_measurement_type ==
    /\ c_fn = "read_any_trioptics_mht"
    /\ c_pc = "identify"
    /\ LET found == IdentifyType(c_args.file)
       IN  IF found.ok
           THEN c_pc' = "dispatch" /\ c_locals' = [type_ |-> found.program] /\ UNCHANGED c_out
           ELSE c_pc' = "failed" /\ c_out' = MhtRaised(found.err) /\ UNCHANGED c_locals
    /\ UNCHANGED << c_fn, c_args >>
    /\ UNCHANGED not_c_vars

\* return type_, TRIOPTICS_SWITCHBOARD[type_](data, metadata=metadata)
read_any_trioptics_mht ==
    /\ c_fn = "read_any_trioptics_mht"
    /\ c_pc = "dispatch"
    /\ LET reader == TRIOPTICS_SWITCHBOARD(c_locals.type_)
       IN  c_out' =
              CASE reader = "KeyError" ->
                     MhtRaised(Error("KeyError", "type_", Word("")))
                [] reader = "NotImplemented" ->
                     MhtRaised(Error("TypeError",
                                     "'NotImplementedType' object is not callable", Word("")))
                [] OTHER -> MtfVsField(c_args.file, c_args.metadata)
    /\ c_pc' = IF c_out'.ok THEN "returned" ELSE "failed"
    /\ UNCHANGED << c_fn, c_args, c_locals >>
    /\ UNCHANGED not_c_vars

NextDispatch == identify_trioptics_measurement_type \/ read_any_trioptics_mht

SpecDispatch == InitDispatch /\ [][NextDispatch]_vars

(***************************************************************************)
(* Zygo ASCII writer                                                       *)
(***************************************************************************)
\* line8 of the header: f'0 0.5 {wavelength*1e-6} 0 1 0 {res} {timestamp_int}',
\* the interferometric scale factor, the wavelength in metres and the
\* obliquity factor
AsciiHeader(phase, wavelength) ==
    [scale_factor |-> Frac(1, 2), wavelength |-> Mul(wavelength, Dec(1, -6)),
     obliquity_factor |-> Num(1), rows |-> phase.rows, cols |-> phase.cols]

\* a value held in an array of the given dtype
Stored(x, dtype) == IF dtype = "float32" THEN F32(x) ELSE x

\* encoded_phase = phase * (coef / wavelength / wavelength / 0.5)
AsciiScale(x, wavelength) ==
    Mul(x, Div(Div(Div(Num(ZYGO_PHASE_RES_FACTORS(1)), wavelength), wavelength),
               Frac(1, 2)))

\* encoded_phase[np.isnan(encoded_phase)] = ZYGO_INVALID_PHASE;
\* encoded_phase.astype(np.int64): the code of one cell, as a number
AsciiCode(x, wavelength, dtype) ==
    IF IsNaN(x) THEN Stored(Num(ZYGO_INVALID_PHASE), dtype)
    ELSE Num(Trunc(Stored(AsciiScale(x, wavelength), dtype)))

AsciiCodes(cells, wavelength, dtype) ==
    [i \in 1..Len(cells) |-> AsciiCode(cells[i], wavelength, dtype)]

\* the phase values, nm, and the wavelengths, um, of a call.  The
\* wavelengths are products of powers of 2 and 5 to keep the exact codes
\* in range
ASCII_PHASES == {NaN, Zero, Num(1), Num(-1), Frac(3, 2), Num(100)}

ASCII_WAVELENGTHS == {Frac(1, 2), Frac(5, 8), Num(2)}

InitAscii ==
    /\ c_fn = "write_zygo_ascii"
    /\ c_pc = "start"
    /\ \E sh \in Shapes(MaxPhaseCells) : \E cells \in SeqsOf(ASCII_PHASES, sh[1] * sh[2]) :
       \E wavelength \in ASCII_WAVELENGTHS : \E dtype \in {"float64", "float32"} :
       \E intensity \in {"None", "array"} :
          c_args = [phase |-> [rows |-> sh[1], cols |-> sh[2], cells |-> cells],
                    wavelength |-> wavelength, dtype |-> dtype,
                    intensity |-> intensity]
    /\ c_locals = [header |-> AsciiHeader(NoArray, Zero)]
    /\ c_out = [err |-> NoError, header |-> AsciiHeader(NoArray, Zero), codes |-> << >>]
    /\ IdleBut("call")

\* the header lines, or NotImplementedError for a call with intensity
ascii_header ==
    /\ c_fn = "write_zygo_ascii"
    /\ c_pc = "start"
    /\ IF c_args.intensity # "None"
       THEN /\ c_pc' = "failed"
            /\ c_out' = [c_out EXCEPT !.err =
                  Error("NotImplementedError",
                        "writing of ASCII files with nonempty intensity not yet supported.",
                        Word(""))]
            /\ UNCHANGED c_locals
       ELSE /\ c_pc' = "header"
            /\ c_locals' = [header |-> AsciiHeader(c_args.phase, c_args.wavelength)]
            /\ UNCHANGED c_out
    /\ UNCHANGED << c_fn, c_args >>
    /\ UNCHANGED not_c_vars

\* the phase codes, and the copy of the buffer to the file
ascii_phase ==
    /\ c_fn = "write_zygo_ascii"
    /\ c_pc = "header"
    /\ c_pc' = "written"
    /\ c_out' = [err |-> NoError, header |-> c_locals.header,
                 codes |-> AsciiCodes(c_args.phase.cells, c_args.wavelength,
                                      c_args.dtype)]
    /\ UNCHANGED << c_fn, c_args, c_locals >>
    /\ UNCHANGED not_c_vars

NextAscii == ascii_header \/ ascii_phase

SpecAscii == InitAscii /\ [][NextAscii]_vars

(***************************************************************************)
(* Properties                                                              *)
(***************************************************************************)
\* read_zygo_dat ran on the file write_zygo_dat wrote
ZygoReadBack == z_pc \in {"read", "failed"}

\* every code of the non-NaN cells is an int32 below the sentinel
CodesBelowSentinel ==
    \A i \in 1..Len(z_phase.cells) :
        IsNaN(z_phase.cells[i])
            \/ (/\ BelowPow2(ZygoQuantize(z_phase.cells[i], z_wvl), 31)
                /\ Trunc(ZygoQuantize(z_phase.cells[i], z_wvl)) < ZYGO_INVALID_PHASE)

\* the phase of one code at 15 bits, nm: wavelength_um * 1000 / 32768
ZygoStep == Div(Mul(z_wvl, Num(1000)), Num(ZYGO_PHASE_RES_FACTORS(1)))

\* C1 (as claimed): for every phase array whose codes stay below the
\* sentinel, reading back the file written gives an array of the same shape,
\* a cell NaN exactly where the input cell was NaN, every other cell within
\* one quantization step (wavelength / 32768) of the input.
C1_ZygoRoundTrip ==
    (ZygoReadBack /\ CodesBelowSentinel)
        => /\ z_out.ok
           /\ z_out.rows = z_phase.rows
           /\ z_out.cols = z_phase.cols
           /\ Len(z_out.phase) = Len(z_phase.cells)
           /\ \A i \in 1..Len(z_phase.cells) :
                 /\ IsNaN(z_out.phase[i]) <=> IsNaN(z_phase.cells[i])
                 /\ IsNaN(z_phase.cells[i])
                       \/ LessEq(NumAbs(Sub(z_out.phase[i], z_phase.cells[i])), ZygoStep)

\* the phase one unit short of 8 codes at WVL_HENE is stored as code 7 and
\* read back, through the float32 wavelength, more than one step away
C1_Witness ==
    /\ z_pc = "read"
    /\ z_wvl = WVL_HENE
    /\ z_phase.cells = << Mk(89058681, 1, -50, 9) >>
    /\ z_file.data = << 0, 0, 0, 7 >>
    /\ z_file.hdr.wavelength = Mk(11132335, 1, -44, 0)
    /\ z_out.phase = << Mk(77926345, 1, -50, 9) >>
    /\ Less(ZygoStep, NumAbs(Sub(z_out.phase[1], z_phase.cells[1])))

AllFinite(cells) == \A i \in 1..Len(cells) : IsFin(cells[i])

\* write_codev_gridint ran to its end on g_array
GridWritten == g_case.family = "roundtrip" /\ g_rounded # << >>

\* read_codev_gridint ran (to a result or to an exception) on the file
\* written with a kind the reader knows
GridReadBack ==
    /\ GridWritten
    /\ g_pc \in {"read", "failed"}
    /\ TypUpper(g_typ) \in {"SUR", "WFR"}

InRange16(x) ==
    /\ IsFin(x)
    /\ LessEq(Num(-GRID_FULL_SCALE), x)
    /\ LessEq(x, Num(GRID_FULL_SCALE))

\* the SSZ value of the header the writer wrote
WrittenScale == g_file.hdr[8].v

\* C2 (as claimed): for every all-finite input array, every integer the
\* writer gets by scaling with min(-32767/min, 32767/max) and rounding lies
\* in [-32767, 32767].
C2_QuantizedInRange ==
    (GridWritten /\ AllFinite(g_array.cells))
        => \A i \in 1..Len(g_rounded) : InRange16(g_rounded[i])

\* the all-positive array [[1, 5000]] nm: scale is -32767/0.001, the second
\* cell is scaled to -163835000
C2_Witness ==
    /\ GridWritten
    /\ g_array.cells = << Num(1), Num(5000) >>
    /\ WrittenScale = Num(-32767000)
    /\ g_rounded = << Num(-32767), Num(-163835000) >>

\* C3 (as claimed): for every all-finite array, reading back the file
\* written gives an array of the same shape, in the same order, every cell
\* within 1/scale um (1000/scale nm) of the original, scale being the SSZ
\* value of the header.
C3_GridRoundTrip ==
    (GridReadBack /\ AllFinite(g_array.cells))
        => /\ g_out.ok
           /\ g_out.rows = g_array.rows
           /\ g_out.cols = g_array.cols
           /\ Len(g_out.cells) = Len(g_array.cells)
           /\ \A i \in 1..Len(g_array.cells) :
                 LessEq(NumAbs(Sub(g_out.cells[i], g_array.cells[i])),
                        NumAbs(Div(Num(1000), WrittenScale)))

\* [[1, 5000]] nm read back: whatever the cast left of -163835000, the
\* second cell comes back further than 1000/scale nm from 5000
C3_Witness ==
    /\ GridReadBack
    /\ g_array.cells = << Num(1), Num(5000) >>
    /\ g_out.ok
    /\ ~LessEq(NumAbs(Sub(g_out.cells[2], g_array.cells[2])),
               NumAbs(Div(Num(1000), WrittenScale)))

\* C4 (as claimed): a cell of the written file holds -32768 exactly when the
\* input cell was NaN, and a cell read back is NaN exactly when the input
\* cell was NaN.
C4_GridNaNExact ==
    GridWritten
        => /\ Len(Flatten(g_file.body)) = Len(g_array.cells)
           /\ \A i \in 1..Len(g_array.cells) :
                 (Flatten(g_file.body)[i] = GRID_NDA) <=> IsNaN(g_array.cells[i])
           /\ (GridReadBack /\ g_out.ok)
                 => \A i \in 1..Len(g_array.cells) :
                       IsNaN(g_out.cells[i]) <=> IsNaN(g_array.cells[i])

\* [[1, 32768]] nm: the second cell is scaled to -1073709056 = -32767 * 2^15,
\* which wraps and saturates alike to -32768, and is read back as NaN
C4_Witness ==
    /\ GridReadBack
    /\ g_array.cells = << Num(1), Num(32768) >>
    /\ g_rounded[2] = Num(-1073709056)
    /\ Flatten(g_file.body)[2] = GRID_NDA
    /\ g_out.ok
    /\ IsNaN(g_out.cells[2])

\* C5: for every element count N >= 1 the search that starts at 585 and
\* decrements stays within 1..585 (so it ends) and ends with a width w <= 585
\* that divides N, no w' with w < w' <= 585 dividing N.
C5_WidthSelection ==
    /\ w_pc = "search" => (1 <= w_width /\ w_width <= GRID_MAX_WIDTH)
    /\ w_pc = "done"
          => /\ 1 <= w_width /\ w_width <= GRID_MAX_WIDTH
             /\ w_size % w_width = 0
             /\ \A x \in (w_width + 1)..GRID_MAX_WIDTH : w_size % x # 0

C5_Witness == w_pc = "done" /\ w_size = 586 /\ w_width = 293

\* C6 (as claimed): every body line holds at most 585 integers, all lines
\* hold the same number of integers, and that number divides the element
\* count.
C6_BodyLayout ==
    w_pc = "done"
        => /\ w_shape.perline <= GRID_MAX_WIDTH
           /\ w_shape.lines * w_shape.perline = w_size
           /\ w_size % w_shape.perline = 0

\* 587 elements (a prime above 585) leave one line of 587 integers
C6_Witness ==
    /\ w_pc = "done"
    /\ w_size = 587
    /\ w_shape = [lines |-> 1, perline |-> 587]

HEADER_ERRORS ==
    { "parsing CV INT header: token not understood",
      "could not convert string to float",
      "invalid literal for int()",
      "list index out of range" }

REQUIRED == {"GRD", "KIND", "WVL", "SSZ", "NDA"}

Range(seq) == { seq[j] : j \in 1..Len(seq) }

HeaderRead == g_case.family = "header" /\ g_pc \in {"read", "failed"}

\* C7: a header line made only of recognized tokens goes through the token
\* loop without error (and, holding every group the reader needs, is read);
\* a header line with one unrecognized word fails with a ValueError that
\* names this word, wherever the word stands.
C7_TokenParser ==
    HeaderRead
        => /\ g_case.junk = 0 => g_out.err.msg \notin HEADER_ERRORS
           /\ (g_case.junk = 0 /\ REQUIRED \subseteq Range(g_case.order)) => g_out.ok
           /\ g_case.junk # 0
                 => /\ ~g_out.ok
                    /\ g_out.err.type = "ValueError"
                    /\ g_out.err.msg \in HEADER_ERRORS
                    /\ g_out.err.tok = JUNK

\* the unknown word stood where the value of WVL was expected
C7_Witness ==
    /\ HeaderRead
    /\ g_case.junk # 0
    /\ g_out.err.msg = "could not convert string to float"
    /\ g_out.err.tok = JUNK

\* the one group of WVL, NDA, GRD a header lacks, "" when it lacks none or
\* another
MissingOf(order) ==
    IF Len(order) # 5 THEN ""
    ELSE IF "WVL" \notin Range(order) THEN "WVL"
    ELSE IF "NDA" \notin Range(order) THEN "NDA"
    ELSE IF "GRD" \notin Range(order) THEN "GRD"
    ELSE ""

\* C8 (as claimed): a header that lacks WVL, one that lacks NDA and one that
\* lacks GRD, each otherwise valid, each fail with a ValueError that names
\* the missing token.
C8_MissingToken ==
    (HeaderRead /\ g_case.junk = 0 /\ MissingOf(g_case.order) # "")
        => /\ ~g_out.ok
           /\ g_out.err.type = "ValueError"
           /\ g_out.err.tok = Word(MissingOf(g_case.order))

\* the header 'SUR WVL 1 SSZ 2 NDA -32768 NNB', which lacks GRD, ends at the
\* test of m with an UnboundLocalError
C8_Witness ==
    /\ HeaderRead
    /\ g_file.hdr = << Word("SUR"), Word("WVL"), FloatTok(Num(1)), Word("SSZ"),
                       FloatTok(Num(2)), Word("NDA"), IntTok(-32768), Word("NNB") >>
    /\ ~g_out.ok
    /\ g_out.err.type = "UnboundLocalError"
    /\ g_out.err.tok = Word("m")

\* C9: for a valid header, every order of its keyword groups is read to the
\* same array and the same metadata as the order GRD, kind, WVL, SSZ, NDA.
C9_OrderIndependent ==
    (HeaderRead /\ g_case.junk = 0 /\ REQUIRED \subseteq Range(g_case.order))
        => /\ g_out.ok
           /\ g_out = ReadGrid(CaseFile([g_case EXCEPT !.order = CANONICAL, !.lower = FALSE],
                                        << g_case.flat >>))

C9_Witness ==
    /\ HeaderRead
    /\ g_case.order = << "NDA", "NNB", "SSZ", "KIND", "WVL", "GRD" >>
    /\ g_out.ok
    /\ g_out.meaning = "wavefront error"

\* C10: a header GRD r c kind WVL w SSZ s NDA n over a body of r*c integers
\* is read to shape (r, c), in row-major order, a cell NaN exactly when its
\* integer equals n and integer * 1000 / w / s otherwise, however the body
\* is cut into lines.
C10_GridDecode ==
    (g_case.family = "body" /\ g_pc \in {"read", "failed"})
        => /\ g_out.ok
           /\ g_out.rows = g_case.r
           /\ g_out.cols = g_case.c
           /\ Len(g_out.cells) = g_case.r * g_case.c
           /\ \A i \in 1..Len(g_case.flat) :
                 g_out.cells[i] =
                     IF g_case.flat[i] = g_case.n THEN NaN
                     ELSE Div(Div(Mul(Num(g_case.flat[i]), Num(1000)), g_case.w), g_case.s)

\* 'GRD 2 2 SUR WVL 1.0 SSZ 2 NDA -32768' over '0 -32768' / '100 200'
C10_Witness ==
    /\ g_case.family = "body"
    /\ g_pc = "read"
    /\ g_file.hdr = GridHeader(2, 2, "SUR", Num(2))
    /\ g_file.body = << << 0, -32768 >>, << 100, 200 >> >>
    /\ g_out.rows = 2 /\ g_out.cols = 2
    /\ g_out.cells = << Zero, NaN, Num(50000), Num(100000) >>

\* the file of the state has been read, or the read has failed
ZygoFileRead == z_pc \in {"read", "failed"}

\* the value the phase code c stands for, in nm, under the header of the file
CodeNanometres(c) ==
    LET meta == z_file.hdr
    IN  Mul(Div(Mul(Mul(Mul(AsFloat(c), meta.scale_factor), meta.obliquity_factor),
                    meta.wavelength),
                Num(ZYGO_PHASE_RES_FACTORS(meta.phase_res))),
            Dec(1, 9))

\* the wavelength field of the file, in nm
WavelengthNanometres == Mul(z_file.hdr.wavelength, Dec(1, 9))

\* C11: read_zygo_dat maps every phase code c >= 2147483640 to NaN and every
\* other code to c * scale_factor * obliquity_factor * wavelength_m / R * 1e9
\* nm, R being 4096, 32768 or 131072 for phase_res 0, 1 or 2.
C11_PhaseDecode ==
    (z_case.family = "phase" /\ ZygoFileRead /\ z_file.hdr.phase_res \in {0, 1, 2}) =>
        /\ z_out.ok
        /\ Len(z_out.phase) = Len(z_case.codes)
        /\ \A i \in 1..Len(z_case.codes) :
              z_out.phase[i] = IF z_case.codes[i] >= ZYGO_INVALID_PHASE THEN NaN
                               ELSE CodeNanometres(z_case.codes[i])

\* the 2 x 2 block 0, 32768, 2147483640, -32768 read at phase_res 1, 632.8 nm
\* and unit factors decodes to 0, +wavelength_nm, NaN, -wavelength_nm
C11_Witness ==
    /\ z_pc = "read"
    /\ z_case.codes = CODES_EXAMPLE
    /\ z_file.hdr.phase_res = 1
    /\ z_file.hdr.wavelength = WVL_FIELD_HENE
    /\ Mul(z_file.hdr.scale_factor, z_file.hdr.obliquity_factor) = Num(1)
    /\ z_file.hdr.obliquity_factor # Num(1)
    /\ z_out.rows = 2 /\ z_out.cols = 2
    /\ z_out.phase = << Zero, WavelengthNanometres, NaN, Neg(WavelengthNanometres) >>

\* C12: when the header's phase_res is not one of 0, 1, 2, read_zygo_dat ends
\* in an error and returns no record, whatever the rest of the file.
C12_UnknownPhaseRes ==
    (z_case.family \in {"phase", "intensity"} /\ ZygoFileRead
        /\ z_file.hdr.phase_res \notin {0, 1, 2}) =>
        /\ z_pc = "failed"
        /\ ~z_out.ok
        /\ z_out.err.type \in {"KeyError", "ValueError"}
        /\ z_out.phase = << >> /\ z_out.intensity = << >>

\* a file whose only fault is phase_res 3 fails on the table lookup
C12_Witness ==
    /\ z_pc = "failed"
    /\ z_case.family = "phase"
    /\ z_file.hdr.phase_res = 3
    /\ z_case.codes = << 32768 >>
    /\ z_out.err.type = "KeyError"
    /\ z_out.phase = << >>

\* the frames of the file as the header declares them
FrameCells == z_file.hdr.ac_width * z_file.hdr.ac_height

BucketCount == IF z_file.hdr.ac_n_buckets = 0 THEN 1 ELSE z_file.hdr.ac_n_buckets

\* the count of cell k of bucket b, buckets numbered from 1
BucketCell(b, k) == z_case.frames[(b - 1) * FrameCells + k]

BucketMean(k) ==
    Div(Num(SumOver(z_case.frames, [b \in 1..BucketCount |-> (b - 1) * FrameCells + k])),
        Num(BucketCount))

IntensityIs(cells) ==
    /\ z_out.ok
    /\ z_out.irows = z_file.hdr.ac_height /\ z_out.icols = z_file.hdr.ac_width
    /\ Len(z_out.intensity) = FrameCells
    /\ \A k \in 1..FrameCells : z_out.intensity[k] = cells[k]

PolicyRejected ==
    /\ z_pc = "failed"
    /\ ~z_out.ok
    /\ z_out.err.type = "ValueError"
    /\ z_out.err.msg = "multi_intensity_action not among valid options"
    /\ z_out.phase = << >> /\ z_out.intensity = << >>

MetadataRead == z_case.family = "metadata" /\ z_pc \in {"decoded", "failed"}

\* the buffer ends before the end of the byte range of some field
BufferShort == \E i \in 1..Len(ZYGO_FIELDS) : BufLen(z_file) < ZYGO_FIELDS[i].hi

NonPadding == { i \in 1..Len(ZYGO_FIELDS) : ZYGO_FIELDS[i].name \notin ZYGO_PAD_NAMES }

\* C14: on a buffer shorter than the end of some field's byte range
\* read_zygo_metadata fails and returns no mapping; on a buffer that covers
\* every field the mapping has exactly one entry per non-padding field and
\* none for a padding field.
C14_MetadataDecode ==
    MetadataRead =>
        IF BufferShort
        THEN ~z_out.ok /\ z_out.err.type = "struct.error" /\ z_out.keys = {}
        ELSE /\ z_out.ok
             /\ z_out.keys = { ZYGO_FIELDS[i].name : i \in NonPadding }
             /\ Cardinality(z_out.keys) = Cardinality(NonPadding)
             /\ z_out.keys \cap ZYGO_PAD_NAMES = {}

\* a buffer of the full header and more, whose part_name bytes are not
\* UTF-8, is not decoded
C14_Witness ==
    /\ z_case.family = "metadata"
    /\ z_pc = "failed"
    /\ BufLen(z_file) = ZYGO_HEADER_SIZE + MaxExtra
    /\ z_file.badstr = {"part_name"}
    /\ z_out.err.type = "UnicodeDecodeError"

\* the entries of the table built so far
Built == 1..c_locals.n

\* C16: the byte ranges [lo, hi) of any two distinct fields of the header
\* table do not overlap, and every range satisfies 0 <= lo < hi <= 834.
C16_LayoutDisjoint ==
    c_fn = "_zygo_metadata_helper" =>
        /\ c_locals.twice = {}
        /\ \A i \in Built :
              /\ 0 <= ZYGO_FIELDS[i].lo
              /\ ZYGO_FIELDS[i].lo < ZYGO_FIELDS[i].hi
              /\ ZYGO_FIELDS[i].hi <= ZYGO_HEADER_SIZE
        /\ c_locals.n > 0 =>
              \A j \in Built \ {c_locals.n} :
                 \/ ZYGO_FIELDS[j].hi <= ZYGO_FIELDS[c_locals.n].lo
                 \/ ZYGO_FIELDS[c_locals.n].hi <= ZYGO_FIELDS[j].lo

\* the whole table is built, padding included, and no byte is in two ranges
C16_Witness ==
    /\ c_fn = "_zygo_metadata_helper"
    /\ c_pc = "returned"
    /\ c_locals.n = Len(ZYGO_FIELDS)
    /\ { ZYGO_FIELDS[i].name : i \in Built } \cap ZYGO_PAD_NAMES = ZYGO_PAD_NAMES
    /\ c_locals.twice = {}
    /\ c_locals.seen # {}

\* C17: the byte ranges of the table, padding ranges counted, jointly span
\* the header: every offset in [0, 834) lies in the range of some field.
C17_LayoutCoverage ==
    (c_fn = "_zygo_metadata_helper" /\ c_pc = "returned") =>
        \A b \in 0..(ZYGO_HEADER_SIZE - 1) :
           \E i \in Built : ZYGO_FIELDS[i].lo <= b /\ b < ZYGO_FIELDS[i].hi

\* the table is built and the last bytes of the header are in no range
C17_Witness ==
    /\ c_fn = "_zygo_metadata_helper"
    /\ c_pc = "returned"
    /\ (0..(ZYGO_HEADER_SIZE - 1)) \ c_locals.seen =
          {652, 653} \cup (754..757) \cup (811..813) \cup (816..833)

\* the arguments of write_zygo_dat give header values that fit their fields
PackArgsFit ==
    /\ c_args.cols <= UINT16_MAX
    /\ c_args.rows <= UINT16_MAX
    /\ c_args.cols <= MAX_CELLS_UINT32 \div c_args.rows
    /\ BelowPow2(Div(c_args.wavelength, Dec(1, 6)), FLOAT32_MAX_EXP)

\* C15: packing the header fails whenever a value does not fit the numeric
\* range of its field or a string is longer than the width of its field; no
\* over-long string, the defaults of the table included, is cut to fit.
C15_PackRangeCheck ==
    c_fn = "write_zygo_dat" =>
        /\ c_locals.cut = {}
        /\ c_pc = "packed" => PackArgsFit
        /\ c_pc = "failed" => ~PackArgsFit

\* the whole header of a 1 x 1 array is packed, the 80 spaces of part_name
\* cut to the 40 bytes of the field
C15_Witness ==
    /\ c_fn = "write_zygo_dat"
    /\ c_pc = "packed"
    /\ c_args.rows = 1 /\ c_args.cols = 1
    /\ c_locals.cut = {"part_name"}

\* read_any_trioptics_mht has looked the identified label up and is done
Dispatched ==
    /\ c_fn = "read_any_trioptics_mht"
    /\ c_pc \in {"returned", "failed"}
    /\ IdentifyType(c_args.file).ok

\* C18: read_any_trioptics_mht calls the registered reader for the label
\* 'MTF vs. Field'; for 'Distortion', 'Axial Color' and 'Lateral Color',
\* mapped to NotImplemented, it fails with a TypeError; for a label absent
\* from the table it fails with a KeyError; the two failures differ in type
\* and neither returns a record.
C18_DispatchOutcomes ==
    Dispatched =>
        CASE c_locals.type_ = [text |-> "MTF vs. Field", whole |-> TRUE] ->
               /\ c_out = MtfVsField(c_args.file, c_args.metadata)
               /\ c_out.ok => c_pc = "returned" /\ c_out.type_ = "MTF vs. Field"
          [] c_locals.type_ \in [text : {"Distortion", "Axial Color", "Lateral Color"},
                                  whole : {TRUE}] ->
               /\ c_pc = "failed" /\ ~c_out.ok /\ c_out.record = {}
               /\ c_out.err.type = "TypeError"
               /\ c_out.err.type # "KeyError"
          [] OTHER ->
               /\ c_pc = "failed" /\ ~c_out.ok /\ c_out.record = {}
               /\ c_out.err.type = "KeyError"

\* a report of the program 'Through Focus', which the table does not hold,
\* ends in a KeyError; the report has the tables a reader would need
C18_Witness ==
    /\ Dispatched
    /\ c_args.file.program = "Through Focus"
    /\ c_args.file.tables
    /\ c_locals.type_ = [text |-> "Through Focus", whole |-> TRUE]
    /\ c_pc = "failed"
    /\ c_out.err.type = "KeyError"


\* the required markers that the report given to the reader lacks
MissingMarkers ==
    { m \in MHT_MARKERS : Find(c_args.file_contents, m) = -1 }

MhtDone ==
    c_fn = "read_trioptics_mtf_vs_field_mtflab_v5" /\ c_pc \in {"returned", "failed"}

\* C19: when a required comment marker of the report is missing,
\* read_trioptics_mtf_vs_field_mtflab_v5 fails with an error and returns no
\* record.
C19_MissingMarkerFails ==
    (MhtDone /\ MissingMarkers # {}) =>
        /\ c_pc = "failed"
        /\ ~c_out.ok /\ c_out.err.type # ""
        /\ c_out.tan = << >> /\ c_out.sag = << >> /\ c_out.field = << >>

\* a report without its close-certificate marker is read to a full record
C19_Witness ==
    /\ MhtDone
    /\ MissingMarkers = {MARK_CLOSE}
    /\ c_pc = "returned"
    /\ c_out.ok
    /\ c_out.field = << 1, 2 >>
    /\ c_out.tan = << << 11, 12 >> >> /\ c_out.sag = << << 21, 22 >> >>

CodevDone == c_fn \in CodevFns /\ c_pc \in {"returned", "failed"}

\* C20: on every finite file read_codev_psf and read_codev_bsp stop reading
\* at the end of the file: once f.readline() has returned '' there, the
\* reader returns or raises and does not call f.readline() again.
C20_StopsAtEndOfFile ==
    c_fn \in CodevFns =>
        /\ c_locals.total_lines_skipped <= Len(c_args.lines) + 1
        /\ c_locals.total_lines_skipped = Len(c_args.lines) + 1 => CodevDone

\* a file that holds 'PSF data:' and no 'Grid spacing:' line: the scan has
\* read past the end of the file and goes on reading
C20_Witness ==
    /\ c_fn = "read_codev_psf"
    /\ c_args.lines = << "PSF data:", "Array Size:", "1.0" >>
    /\ c_pc = "spacing"
    /\ c_locals.pos = Len(c_args.lines)
    /\ c_locals.line = ""
    /\ c_locals.total_lines_skipped > Len(c_args.lines) + 2

\* the first line after line `from` that is label, 0 when there is none
FirstAfter(lines, label, from) ==
    LET S == { i \in (from + 1)..Len(lines) : lines[i] = label }
    IN  IF S = {} THEN 0 ELSE CHOOSE i \in S : \A j \in S : i <= j

\* the labels of fn in the order it requires them, after the heading
LabelsOf(fn) ==
    IF fn = "read_codev_psf" THEN << "Grid spacing:", "Array Size:" >>
    ELSE << "Offset of grid center", "Grid spacing:", "Array Size:" >>

\* the line of the k-th label, each looked for after the one before it;
\* 0 when the heading or a label is missing
RECURSIVE LabelLine(_, _, _)
LabelLine(fn, lines, k) ==
    IF k = 0
    THEN LET S == { i \in 1..Len(lines) : lines[i] # "\n" }
         IN  IF S = {} THEN 0
             ELSE LET h == CHOOSE i \in S : \A j \in S : i <= j
                  IN  IF lines[h] = Heading(fn) THEN h ELSE 0
    ELSE LET before == LabelLine(fn, lines, k - 1)
         IN  IF before = 0 THEN 0 ELSE FirstAfter(lines, LabelsOf(fn)[k], before)

ArraySizeLine(fn, lines) == LabelLine(fn, lines, Len(LabelsOf(fn)))

\* the scans are over: the bulk parser is about to run or has run
CodevScanned ==
    /\ c_fn \in CodevFns
    /\ \/ c_pc \in {"load", "returned"}
       \/ c_pc = "failed" /\ c_out.msg = "array size must match header"

\* C21: when read_codev_psf or read_codev_bsp has found its labels in the
\* required order, total_lines_skipped is the number of lines from the start
\* of the file up to and including the 'Array Size:' line, whatever the
\* number of blank lines at the top and of lines between the labels; the
\* lines genfromtxt parses are the ones after that line.
C21_CounterAtArraySize ==
    CodevScanned =>
        LET size == ArraySizeLine(c_fn, c_args.lines)
        IN  /\ size > 0
            /\ c_locals.total_lines_skipped = size
            /\ c_pc = "returned" =>
                   SubSeq(c_args.lines, size + 1, Len(c_args.lines)) = << "1.0" >>

\* a blank line at the top and a line between the heading and the first
\* label: the counter is 5 and the row after the 'Array Size:' line is read
C21_Witness ==
    /\ c_fn = "read_codev_psf"
    /\ c_args.lines = << "\n", "PSF data:", "1.0", "Grid spacing:", "Array Size:",
                         "1.0" >>
    /\ c_pc = "returned"
    /\ c_locals.total_lines_skipped = 5

\* C22: the grid spacing is used unchanged when the unit token is the
\* millimetre token of the reader, is multiplied by 25.4 when it is the inch
\* token, and is then multiplied by 1000; any other unit token is a
\* ValueError and no spacing is returned.
C22_SpacingUnits ==
    c_fn \in CodevFns =>
        LET v     == c_args.v
            unit  == c_args.unit
            mm    == IF unit = MmToken(c_fn) THEN v
                     ELSE Div(Mul(v, Num(254)), Num(10))
            um    == Mul(mm, Num(1000))
            um2   == Mul(um, Num(2))
            known == unit \in {MmToken(c_fn), InchToken(c_fn)}
        IN  /\ c_locals.spacing # << >> =>
                 /\ known
                 /\ c_locals.spacing
                      = IF c_fn = "read_codev_psf" THEN << um >> ELSE << um, um2 >>
            /\ c_pc = "returned" => c_locals.spacing # << >>
            /\ (~known /\ c_pc \in {"size", "load", "returned"}) => FALSE
            /\ (c_pc = "failed" /\ c_out.type = "ValueError") =>
                 /\ ~known
                 /\ c_locals.spacing = << >>
                 /\ c_locals.line = "Grid spacing:"

\* a BSP file in inches: 1/2 in by 1 in is 12700 um by 25400 um
C22_Witness ==
    /\ c_fn = "read_codev_bsp"
    /\ c_args.unit = "in" /\ c_args.v = Frac(1, 2)
    /\ c_pc = "returned"
    /\ c_locals.spacing = << Num(12700), Num(25400) >>

\* code * scale_factor * obliquity * wavelength_m / 32768 * 1e9 with the
\* values of the header
AsciiDecode(code, header) ==
    Mul(Div(Mul(Mul(Mul(code, header.scale_factor), header.obliquity_factor),
                header.wavelength),
            Num(ZYGO_PHASE_RES_FACTORS(1))),
        Dec(1, 9))

C24_HandleReleased ==
    (c_fn \in HandleFns /\ c_pc \in {"returned", "failed"}) => ~c_locals.open

\* a PSF file with an unknown unit token: the ValueError is raised inside
\* the with block, after the file was opened and three lines were read
C24_Witness ==
    /\ c_fn = "read_codev_psf"
    /\ c_args.exists
    /\ c_args.lines = << "\n", "PSF data:", "Grid spacing:" >>
    /\ c_args.unit = "CM."
    /\ c_pc = "failed" /\ c_out.type = "ValueError"
    /\ c_locals.total_lines_skipped = 3
    /\ ~c_locals.open

\* the position of the field called name in the order of packing
FieldAt(name) == CHOOSE i \in 1..Len(PackOrder) : PackOrder[i].name = name

\* C25: the header write_zygo_dat packs is decoded by read_zygo_metadata to
\* header_size = 834, phase_res = 1, cn_width = cols, cn_height = rows,
\* cn_n_bytes = 4*rows*cols, and every other integer or string field that
\* is not padding to the value that was packed, the default of the table;
\* the file is 834 + 4*rows*cols bytes long.
C25_HeaderRoundTrip ==
    (c_fn = "write_zygo_dat" /\ c_pc = "decoded") =>
        LET meta == c_locals.meta
        IN  /\ meta[FieldAt("header_size")] = IntVal(834)
            /\ meta[FieldAt("phase_res")] = IntVal(1)
            /\ meta[FieldAt("cn_width")] = IntVal(c_args.cols)
            /\ meta[FieldAt("cn_height")] = IntVal(c_args.rows)
            /\ meta[FieldAt("cn_n_bytes")] = Times4(c_args.rows * c_args.cols)
            /\ \A i \in 1..Len(PackOrder) :
                 LET packed == PackValue(PackOrder[i], c_args)
                 IN  packed.k \in {"int", "str"} => meta[i] = packed
            /\ c_locals.nbytes
                 = Add(Num(834), Mul(Num(4), Num(c_args.rows * c_args.cols)))

\* the header of a 1 x 1 array read back: the integers and the file length
\* are as packed, and part_name is 40 spaces where 80 were packed
C25_Witness ==
    /\ c_fn = "write_zygo_dat" /\ c_pc = "decoded"
    /\ c_args.rows = 1 /\ c_args.cols = 1
    /\ c_locals.nbytes = Num(838)
    /\ c_locals.meta[FieldAt("magic_number")] = U32(34843, 879)
    /\ c_locals.meta[FieldAt("cn_n_bytes")] = IntVal(4)
    /\ c_locals.meta[FieldAt("zoom_descr")] = StrVal(6)
    /\ PackValue(PackOrder[FieldAt("part_name")], c_args) = StrVal(80)
    /\ c_locals.meta[FieldAt("part_name")] = StrVal(40)

\* the i-th code of the file written, from its four bytes
StoredCode(i) == Int32Of(SubSeq(z_file.data, 4 * i - 3, 4 * i))

\* C26: for every phase value that is not NaN the code write_zygo_dat stores
\* is the integer nearest to phase * 1e-3 * 32768 / wavelength_um, and for a
\* NaN it is the sentinel 2147483640.
C26_NearestCode ==
    (z_case.family = "roundtrip" /\ z_pc = "written") =>
        \A i \in 1..Len(z_phase.cells) :
            IF IsNaN(z_phase.cells[i]) THEN StoredCode(i) = ZYGO_INVALID_PHASE
            ELSE LessEq(NumAbs(Sub(Num(StoredCode(i)),
                                   ZygoQuantize(z_phase.cells[i], z_wvl))),
                        Frac(1, 2))

\* the phase a ten-millionth short of 8 codes is stored as 7, not as 8
C26_Witness ==
    /\ z_case.family = "roundtrip" /\ z_pc = "written"
    /\ z_wvl = WVL_HENE
    /\ z_phase.cells = << Mk(89058681, 1, -50, 9) >>
    /\ Less(Frac(15, 2), ZygoQuantize(z_phase.cells[1], z_wvl))
    /\ Less(ZygoQuantize(z_phase.cells[1], z_wvl), Num(8))
    /\ StoredCode(1) = 7

\* the measurement rows of the report given to the reader
RowsGiven == SelectSeq(c_args.file_contents, IsRow)

\* the positions of the rows of the report whose azimuth is 'Sag'
SagRows == { i \in 1..Len(RowsGiven) : RowsGiven[i].az = "Sag" }

\* the k-th smallest member of a set of positions
Nth(S, k) == CHOOSE i \in S : Cardinality({ j \in S : j < i }) = k - 1

\* C27: the v5 reader appends each measurement row to sag when its azimuth
\* is 'Sag' and to tan otherwise, in the order of the report; freq has every
\* distinct frequency once, in the order of first occurrence.
C27_RowsByAzimuth ==
    (c_fn = "read_trioptics_mtf_vs_field_mtflab_v5" /\ c_pc = "returned") =>
        LET n     == Len(RowsGiven)
            other == (1..n) \ SagRows
            value == [i \in 1..n |-> ParseFreq(RowsGiven[i].freq)]
            first == { i \in 1..n : \A j \in 1..(i - 1) : value[j] # value[i] }
        IN  /\ c_out.sag = [k \in 1..Cardinality(SagRows) |->
                                RowsGiven[Nth(SagRows, k)].vals]
            /\ c_out.tan = [k \in 1..Cardinality(other) |->
                                RowsGiven[Nth(other, k)].vals]
            /\ c_out.freq = [k \in 1..Cardinality(first) |-> value[Nth(first, k)]]

\* rows tan 20, Sag 10, Tan 10.0: the row with the azimuth 'tan' goes to
\* tan, and 10.0 is the frequency 10 seen before
C27_Witness ==
    /\ c_fn = "read_trioptics_mtf_vs_field_mtflab_v5" /\ c_pc = "returned"
    /\ RowsGiven = << DataRow("tan", "20", << 1 >>), DataRow("Sag", "10", << 2 >>),
                      DataRow("Tan", "10.0", << 3 >>) >>
    /\ c_out.tan = << << 1 >>, << 3 >> >>
    /\ c_out.sag = << << 2 >> >>
    /\ c_out.freq = << 20, 10 >>

\* the values of the first half of the matches of an azimuth in the text
\* that is searched
FirstHalf(az) ==
    LET all == FindAll(c_locals.data, az)
    IN  [i \in 1..(Len(all) \div 2) |-> all[i].vals]

\* C28: the v4 reader keeps exactly the first half of the matches of each
\* azimuth, and the tan and sag matrices have one row for every frequency
\* returned.
C28_FirstHalfOfEach ==
    (c_fn = "read_trioptics_mtf_vs_field_mtflab_v4" /\ c_pc = "returned") =>
        /\ c_out.tan = FirstHalf("Tan")
        /\ c_out.sag = FirstHalf("Sag")
        /\ Len(c_out.tan) = Len(c_out.freq)
        /\ Len(c_out.sag) = Len(c_out.freq)

\* four 'Tan' blocks and one 'Sag' block: two frequencies and two rows of
\* tan are returned with one row of sag, the only 'Sag' match
C28_Witness ==
    /\ c_fn = "read_trioptics_mtf_vs_field_mtflab_v4" /\ c_pc = "returned"
    /\ Len(FindAll(c_locals.data, "Tan")) = 4
    /\ Len(FindAll(c_locals.data, "Sag")) = 1
    /\ c_out.freq = << 10, 20 >>
    /\ c_out.tan = << << 101 >>, << 102 >> >>
    /\ c_out.sag = << << 201 >> >>

\* a file of a kind the writer accepts was written and given to the reader
KindReadBack ==
    /\ g_case.family = "roundtrip"
    /\ g_pc \in {"read", "failed"}
    /\ TypUpper(g_typ) \in {"SUR", "WFR", "FIL"}

\* C29: for each kind write_codev_gridint accepts (SUR, WFR, FIL) the header
\* it writes is accepted by read_codev_gridint, no token of it being
\* rejected as not understood, and the metadata read carries the data
\* meaning of that kind.
C29_KindAccepted ==
    KindReadBack =>
        /\ g_out.err.msg # "parsing CV INT header: token not understood"
        /\ g_out.ok =>
              CASE TypUpper(g_typ) = "SUR" -> g_out.meaning = "surface error"
                [] TypUpper(g_typ) = "WFR" -> g_out.meaning = "wavefront error"
                [] OTHER -> g_out.meaning \notin {"", "surface error", "wavefront error"}

\* the file written for the kind FIL is rejected at the token FIL
C29_Witness ==
    /\ KindReadBack
    /\ g_typ = "FIL"
    /\ g_array.cells = << Num(-10000), Num(1) >>
    /\ g_pc = "failed"
    /\ g_out.err = Error("ValueError", "parsing CV INT header: token not understood",
                         Word("FIL"))

====
